---------------------------- MODULE Spec2Model ----------------------------
(***************************************************************************)
(* Social Contact Widget Generator: the configurator's state and edits,    *)
(* the contact validators, and the widget code generator.                  *)
(*                                                                         *)
(* A JavaScript string is a sequence of one-character strings; the fixed   *)
(* pieces of a template literal are kept as single (multi-character)       *)
(* elements of such a sequence, so a bundle is the sequence of its         *)
(* template pieces and interpolated characters in order.                   *)
(***************************************************************************)
EXTENDS Integers, Sequences, FiniteSets, TLC

VARIABLES
    config,     \* App's useState<WidgetConfig>
    errors,     \* Configurator's useState errors map (platform id -> message)
    code,       \* CodeOutput's useState code
    pending,    \* effects of the latest render that have not run yet
    edits,      \* number of configuration edits made so far
    mounted,    \* whether the React tree is mounted (no effect has thrown)
    vIn,        \* validator call: [platformId, pConfig]
    vOut,       \* validator call: its result, or Pending before the call
    widget,     \* the page the bundle is pasted into: the widget's DOM state
    copyState   \* CodeOutput's copied flag, clipboard writes and reset timers

vars == <<config, errors, code, pending, edits, mounted, vIn, vOut, widget, copyState>>

(***************************************************************************)
(* Characters                                                              *)
(***************************************************************************)
Digit == {"0", "1", "2", "3", "4", "5", "6", "7", "8", "9"}

Lower == {"a", "b", "c", "d", "e", "f", "g", "h", "i", "j", "k", "l", "m",
          "n", "o", "p", "q", "r", "s", "t", "u", "v", "w", "x", "y", "z"}

Upper == {"A", "B", "C", "D", "E", "F", "G", "H", "I", "J", "K", "L", "M",
          "N", "O", "P", "Q", "R", "S", "T", "U", "V", "W", "X", "Y", "Z"}

\* JavaScript line terminators: what `.` does not match.
LineTerminator == {"\n", "\r"}

\* JavaScript white space: what \s matches and String.prototype.trim strips.
WhiteSpace == {" ", "\t"} \cup LineTerminator

(***************************************************************************)
(* String helpers                                                          *)
(***************************************************************************)
\* s.slice(from - 1, to)
Slice(s, from, to) == [i \in 1..(to - from + 1) |-> s[from + i - 1]]

\* s.startsWith(p)
StartsWith(s, p) == Len(s) >= Len(p) /\ \A i \in 1..Len(p) : s[i] = p[i]

\* n copies of the character c
Rep(c, n) == [i \in 1..n |-> c]

\* String.prototype.trim
trim(s) ==
    LET keep == {i \in 1..Len(s) : s[i] \notin WhiteSpace}
    IN  IF keep = {} THEN <<>>
        ELSE LET lo == CHOOSE i \in keep : \A j \in keep : i <= j
                 hi == CHOOSE i \in keep : \A j \in keep : j <= i
             IN  Slice(s, lo, hi)

\* s.trim() in place of s.replace(/\s+/g, '') (C13 depends on the difference)
StripWhiteSpace_EndsOnly(s) == trim(s)

\* s.replace(/\s+/g, '')
StripWhiteSpace(s) == SelectSeq(s, LAMBDA c : c \notin WhiteSpace)

\* c.toLowerCase(), for an ASCII character
LowerMap ==
    [A |-> "a", B |-> "b", C |-> "c", D |-> "d", E |-> "e", F |-> "f", G |-> "g",
     H |-> "h", I |-> "i", J |-> "j", K |-> "k", L |-> "l", M |-> "m", N |-> "n",
     O |-> "o", P |-> "p", Q |-> "q", R |-> "r", S |-> "s", T |-> "t", U |-> "u",
     V |-> "v", W |-> "w", X |-> "x", Y |-> "y", Z |-> "z"]

\* s.toLowerCase()
toLowerCase(s) == [i \in 1..Len(s) |-> IF s[i] \in DOMAIN LowerMap THEN LowerMap[s[i]] ELSE s[i]]

\* parts.join(''), for the parts lo..hi
RECURSIVE Flatten(_, _, _)
Flatten(parts, lo, hi) ==
    IF lo > hi THEN <<>>
    ELSE IF lo = hi THEN parts[lo]
    ELSE Flatten(parts, lo, (lo + hi) \div 2) \o Flatten(parts, ((lo + hi) \div 2) + 1, hi)

(***************************************************************************)
(* Validators (Configurator)                                               *)
(***************************************************************************)
\* `return undefined`
Undefined == "undefined"

\* The result of a call that has not been made yet
Pending == "pending"

WhatsappMinLen == 7
WhatsappMaxLen == 15
TelegramMinLen == 5
TelegramMaxLen == 32
PhoneDigitRun == 7

\* /^\d+$/.test(s)
AllDigitsRegex(s) == Len(s) >= 1 /\ \A i \in 1..Len(s) : s[i] \in Digit

\* validators.whatsapp with an upper limit one too high (C7 depends on the limit)
validators_whatsapp_OneMore(value) ==
    LET trimmedValue == trim(value)
    IN  IF trimmedValue = <<>> THEN "WhatsApp number is required."
        ELSE IF ~AllDigitsRegex(trimmedValue)
             THEN "Please enter digits only, without \"+\" or spaces."
        ELSE IF Len(trimmedValue) < WhatsappMinLen \/ Len(trimmedValue) > WhatsappMaxLen + 1
             THEN "Number must be between 7 and 15 digits."
        ELSE Undefined

validators_whatsapp(value) ==
    LET trimmedValue == trim(value)
    IN  IF trimmedValue = <<>> THEN "WhatsApp number is required."
        ELSE IF ~AllDigitsRegex(trimmedValue)
             THEN "Please enter digits only, without \"+\" or spaces."
        ELSE IF Len(trimmedValue) < WhatsappMinLen \/ Len(trimmedValue) > WhatsappMaxLen
             THEN "Number must be between 7 and 15 digits."
        ELSE Undefined

\* /\s/.test(s)
HasWhiteSpaceRegex(s) == \E i \in 1..Len(s) : s[i] \in WhiteSpace

\* validators.messenger without its required check (C6 depends on the check)
validators_messenger_NotRequired(value) ==
    IF HasWhiteSpaceRegex(trim(value)) THEN "Cannot contain spaces." ELSE Undefined

validators_messenger(value) ==
    LET trimmedValue == trim(value)
    IN  IF trimmedValue = <<>> THEN "Page ID or username is required."
        ELSE IF HasWhiteSpaceRegex(trimmedValue) THEN "Cannot contain spaces."
        ELSE Undefined

\* /^[a-zA-Z0-9]{5,32}$/.test(s): no underscore (C8 depends on the class)
TelegramRegex_NoUnderscore(s) ==
    /\ Len(s) >= TelegramMinLen
    /\ Len(s) <= TelegramMaxLen
    /\ \A i \in 1..Len(s) : s[i] \in Lower \cup Upper \cup Digit

\* /^[a-zA-Z0-9_]{5,32}$/.test(s)
TelegramRegex(s) ==
    /\ Len(s) >= TelegramMinLen
    /\ Len(s) <= TelegramMaxLen
    /\ \A i \in 1..Len(s) : s[i] \in Lower \cup Upper \cup Digit \cup {"_"}

validators_telegram(value) ==
    LET trimmedValue == trim(value)
    IN  IF trimmedValue = <<>> THEN "Telegram username is required."
        ELSE IF ~TelegramRegex(trimmedValue)
             THEN "Must be 5-32 letters, numbers, or underscores."
        ELSE Undefined

\* /^(?=.*\d{7})[\d\s()+-]+$/.test(s): the lookahead is tried at the start
\* of the string only, and `.` matches no line terminator.
PhoneRegex(s) ==
    /\ \E k \in 0..Len(s) :
          /\ k + PhoneDigitRun <= Len(s)
          /\ \A i \in 1..k : s[i] \notin LineTerminator
          /\ \A i \in (k + 1)..(k + PhoneDigitRun) : s[i] \in Digit
    /\ Len(s) >= 1
    /\ \A i \in 1..Len(s) : s[i] \in Digit \cup WhiteSpace \cup {"(", ")", "+", "-"}

validators_phone(value) ==
    LET trimmedValue == trim(value)
    IN  IF trimmedValue = <<>> THEN "Phone number is required."
        ELSE IF ~PhoneRegex(trimmedValue) THEN "Please enter a valid phone number."
        ELSE Undefined

\* /^[^\s@]+@[^\s@]+\.[^\s@]+$/.test(s)
emailRegex(s) ==
    LET plain(from, to) ==
            /\ from <= to
            /\ \A i \in from..to : s[i] \notin WhiteSpace \cup {"@"}
    IN  \E at \in 1..Len(s) : \E dot \in 1..Len(s) :
            /\ s[at] = "@"
            /\ s[dot] = "."
            /\ plain(1, at - 1)
            /\ plain(at + 1, dot - 1)
            /\ plain(dot + 1, Len(s))

validators_email(value) ==
    LET trimmedValue == trim(value)
    IN  IF trimmedValue = <<>> THEN "Email address is required."
        ELSE IF emailRegex(trimmedValue) THEN Undefined
        ELSE "Please enter a valid email address."

(***************************************************************************)
(* new URL(testUrl) for an http(s) URL, and its hostname (WHATWG URL).     *)
(* The characters "[", "%" and non-ASCII ones are outside the model, as    *)
(* are punycode labels: hosts are ASCII domains or IPv4 addresses.         *)
(***************************************************************************)
\* `new URL` throws
Failure == <<"TypeError">>

\* The least index from `from` on whose character is in `stops`, or Len(s) + 1.
FirstIn(s, from, stops) ==
    IF \E i \in from..Len(s) : s[i] \in stops
    THEN CHOOSE i \in from..Len(s) :
            s[i] \in stops /\ \A j \in from..(i - 1) : s[j] \notin stops
    ELSE Len(s) + 1

\* The least index from `from` on whose character is not in `skipped`, or Len(s) + 1.
FirstNotIn(s, from, skipped) ==
    IF \E i \in from..Len(s) : s[i] \notin skipped
    THEN CHOOSE i \in from..Len(s) :
            s[i] \notin skipped /\ \A j \in from..(i - 1) : s[j] \in skipped
    ELSE Len(s) + 1

\* The greatest index whose character is c, or 0.
LastIndexOf(s, c) ==
    IF \E i \in 1..Len(s) : s[i] = c
    THEN CHOOSE i \in 1..Len(s) : s[i] = c /\ \A j \in (i + 1)..Len(s) : s[j] # c
    ELSE 0

\* s.split('.'), given the indices of the dots of s in increasing order
PartsAt(s, dots) ==
    [k \in 1..(Len(dots) + 1) |->
        Slice(s, IF k = 1 THEN 1 ELSE dots[k - 1] + 1,
                 IF k > Len(dots) THEN Len(s) ELSE dots[k] - 1)]

\* The indices of `all` that hold TRUE, in increasing order
RECURSIVE IndicesFrom(_, _)
IndicesFrom(all, from) ==
    IF from > Len(all) THEN <<>>
    ELSE IF all[from] THEN <<from>> \o IndicesFrom(all, from + 1)
    ELSE IndicesFrom(all, from + 1)

\* s.split('.')
SplitDots(s) == PartsAt(s, IndicesFrom([i \in 1..Len(s) |-> s[i] = "."], 1))

HexDigits == <<"0", "1", "2", "3", "4", "5", "6", "7", "8", "9", "a", "b", "c", "d", "e", "f">>

\* The value of a digit in a radix, or 99 for a character that is none
DigitValue(c) ==
    IF \E k \in 1..Len(HexDigits) : HexDigits[k] = c
    THEN (CHOOSE k \in 1..Len(HexDigits) : HexDigits[k] = c) - 1
    ELSE 99

\* A number as two 16-bit limbs <<hi, lo>>; hi = Limb stands for 2^32 or more.
Limb == 65536

\* acc * radix + digit, saturating
Shifted(acc, radix, digit, low) ==
    <<IF acc[1] * radix + (low \div Limb) >= Limb THEN Limb
      ELSE acc[1] * radix + (low \div Limb),
      low % Limb>>

RECURSIVE Accumulate(_, _, _, _)
Accumulate(digits, from, radix, acc) ==
    IF from > Len(digits) THEN acc
    ELSE Accumulate(digits, from + 1, radix,
                    Shifted(acc, radix, DigitValue(digits[from]),
                            acc[2] * radix + DigitValue(digits[from])))

\* The number a digit string of a radix denotes; a string of more than 11
\* significant digits denotes 2^32 or more in every radix
NumberOf(digits, radix, first) ==
    IF Len(digits) - first >= 11 THEN <<Limb, 0>>
    ELSE Accumulate(digits, first, radix, <<0, 0>>)

\* The IPv4 number parser on a lower-case part, after its radix prefix:
\* <<hi, lo>>, or <<-1, -1>> for failure
ParsedNumber(digits, radix) ==
    IF \E i \in 1..Len(digits) : DigitValue(digits[i]) >= radix THEN <<-1, -1>>
    ELSE NumberOf(digits, radix, FirstNotIn(digits, 1, {"0"}))

IPv4NumberLower(part) ==
    IF part = <<>> THEN <<-1, -1>>
    ELSE IF Len(part) >= 2 /\ part[1] = "0" /\ part[2] = "x"
         THEN ParsedNumber(Slice(part, 3, Len(part)), 16)
    ELSE IF Len(part) >= 2 /\ part[1] = "0"
         THEN ParsedNumber(Slice(part, 2, Len(part)), 8)
    ELSE ParsedNumber(part, 10)

\* The IPv4 number parser
IPv4Number(part) == IPv4NumberLower(toLowerCase(part))

\* The parts of a host with an empty last part removed
WithoutEmptyLast(all) ==
    IF all[Len(all)] = <<>> THEN SubSeq(all, 1, Len(all) - 1) ELSE all

LastIsNumber(last) ==
    \/ last # <<>> /\ \A i \in 1..Len(last) : last[i] \in Digit
    \/ IPv4Number(last)[1] >= 0

EndsInANumberParts(parts) == parts # <<>> /\ LastIsNumber(parts[Len(parts)])

\* The ends-in-a-number checker
EndsInANumber(host) == EndsInANumberParts(WithoutEmptyLast(SplitDots(host)))

DecimalDigits == <<"0", "1", "2", "3", "4", "5", "6", "7", "8", "9">>

\* A number below 256 in decimal
ByteString(n) ==
    IF n >= 100
    THEN <<DecimalDigits[(n \div 100) + 1], DecimalDigits[((n \div 10) % 10) + 1],
           DecimalDigits[(n % 10) + 1]>>
    ELSE IF n >= 10 THEN <<DecimalDigits[(n \div 10) + 1], DecimalDigits[(n % 10) + 1]>>
    ELSE <<DecimalDigits[n + 1]>>

\* The IPv4 serializer, for an address of limbs hi and lo
IPv4Serialized(hi, lo) ==
    ByteString(hi \div 256) \o <<".">> \o ByteString(hi % 256) \o <<".">>
    \o ByteString(lo \div 256) \o <<".">> \o ByteString(lo % 256)

\* The IPv4 parser, given the numbers of the n parts: the leading parts are
\* the leading bytes of the address, the last part fills the rest
IPv4OfNumbers(nums, n) ==
    IF n > 4 THEN Failure
    ELSE IF \E i \in 1..n : nums[i][1] < 0 THEN Failure
    ELSE IF \E i \in 1..(n - 1) : nums[i][1] # 0 \/ nums[i][2] > 255 THEN Failure
    ELSE IF nums[n][1] >= (CASE n = 1 -> Limb [] n = 2 -> 256 [] OTHER -> 1) THEN Failure
    ELSE IF n = 4 /\ nums[n][2] > 255 THEN Failure
    ELSE IPv4Serialized(
            (IF n >= 2 THEN nums[1][2] * 256 ELSE 0) + (IF n >= 3 THEN nums[2][2] ELSE 0)
                + nums[n][1],
            (IF n >= 4 THEN nums[3][2] * 256 ELSE 0) + nums[n][2])

IPv4OfParts(parts) == IPv4OfNumbers([i \in 1..Len(parts) |-> IPv4Number(parts[i])], Len(parts))

\* The IPv4 parser, and the serializer of its result
IPv4Host(host) == IPv4OfParts(WithoutEmptyLast(SplitDots(host)))

ForbiddenDomainCodePoint ==
    {" ", "#", "/", ":", "<", ">", "?", "@", "[", "\\", "]", "^", "|", "%"}

HostOfDomain(asciiDomain) ==
    IF asciiDomain = <<>> THEN Failure
    ELSE IF \E i \in 1..Len(asciiDomain) : asciiDomain[i] \in ForbiddenDomainCodePoint
         THEN Failure
    ELSE IF EndsInANumber(asciiDomain) THEN IPv4Host(asciiDomain)
    ELSE asciiDomain

\* The host parser for a special scheme
HostParse(input) == HostOfDomain(toLowerCase(input))

MaxPort == 65535

\* The port state: digits up to the end of the authority, at most MaxPort
PortValueOk(v) == v[1] = 0 /\ v[2] <= MaxPort

PortOk(port) ==
    /\ \A i \in 1..Len(port) : port[i] \in Digit
    /\ PortValueOk(NumberOf(port, 10, FirstNotIn(port, 1, {"0"})))

\* The host state: the host runs to the first ":", the port follows it
HostAndPort(hostport, colon) ==
    IF hostport = <<>> \/ colon = 1 THEN Failure
    ELSE IF colon <= Len(hostport) /\ ~PortOk(Slice(hostport, colon + 1, Len(hostport)))
         THEN Failure
    ELSE HostParse(Slice(hostport, 1, colon - 1))

HostOfHostPort(hostport) == HostAndPort(hostport, FirstIn(hostport, 1, {":"}))

\* The authority state: what precedes the last "@" is the credentials
HostOfAuthority(authority) ==
    HostOfHostPort(Slice(authority, LastIndexOf(authority, "@") + 1, Len(authority)))

\* The special authority (ignore) slashes states skip the slashes after the
\* scheme; the authority runs to the first "/", "?", "#" or "\"
AuthorityFrom(input, start) ==
    HostOfAuthority(Slice(input, start, FirstIn(input, start, {"/", "?", "#", "\\"}) - 1))

HostOfInput(input) ==
    AuthorityFrom(input, FirstNotIn(input, FirstIn(input, 1, {":"}) + 1, {"/", "\\"}))

\* new URL(testUrl).hostname, or Failure, for a testUrl that starts with
\* http:// or https:// in any letter case; the parser first removes every
\* ASCII tab or newline
URLHostname(testUrl) ==
    HostOfInput(SelectSeq(testUrl, LAMBDA c : c \notin {"\t", "\n", "\r"}))

\* /^https?:\/\//i.test(s), for s in lower case
HasHttpSchemeLower(s) ==
    \/ StartsWith(s, <<"h", "t", "t", "p", ":", "/", "/">>)
    \/ StartsWith(s, <<"h", "t", "t", "p", "s", ":", "/", "/">>)

\* /^https?:\/\//i.test(s)
HasHttpScheme(s) == HasHttpSchemeLower(toLowerCase(s))

\* The rest of validators.url without the test for a "." (C11 depends on it)
UrlResult_AnyHost(hostname) ==
    IF hostname = Failure \/ hostname = <<>>
    THEN "Please enter a valid URL (e.g., https://example.com) or path (e.g., /contact)."
    ELSE Undefined

\* The rest of validators.url, given the hostname of new URL(testUrl) or Failure
UrlResult(hostname) ==
    IF hostname = Failure \/ hostname = <<>> \/ \A i \in 1..Len(hostname) : hostname[i] # "."
    THEN "Please enter a valid URL (e.g., https://example.com) or path (e.g., /contact)."
    ELSE Undefined

validators_url_trimmed(trimmedValue) ==
    IF trimmedValue = <<>> THEN "URL is required."
    ELSE IF StartsWith(trimmedValue, <<"/">>) \/ StartsWith(trimmedValue, <<"#">>)
         THEN Undefined
    ELSE UrlResult(URLHostname(IF HasHttpScheme(trimmedValue) THEN trimmedValue
                               ELSE <<"h", "t", "t", "p", "s", ":", "/", "/">>
                                    \o trimmedValue))

validators_url(value) == validators_url_trimmed(trim(value))

\* pConfig.emailLinkType, or Undefined when the field is absent
emailLinkTypeOf(pConfig) ==
    IF "emailLinkType" \in DOMAIN pConfig THEN pConfig.emailLinkType ELSE Undefined

\* getValidationError with the e-mail address rule for both link types (C10
\* depends on the selection)
getValidationError_AddressRuleOnly(platformId, pConfig) ==
    CASE platformId = "whatsapp" -> validators_whatsapp(pConfig.contactId)
      [] platformId = "messenger" -> validators_messenger(pConfig.contactId)
      [] platformId = "telegram" -> validators_telegram(pConfig.contactId)
      [] platformId = "phone" -> validators_phone(pConfig.contactId)
      [] platformId = "email" -> validators_email(pConfig.contactId)
      [] OTHER -> Undefined

getValidationError(platformId, pConfig) ==
    LET contactId == pConfig.contactId
    IN  CASE platformId = "whatsapp" -> validators_whatsapp(contactId)
          [] platformId = "messenger" -> validators_messenger(contactId)
          [] platformId = "telegram" -> validators_telegram(contactId)
          [] platformId = "phone" -> validators_phone(contactId)
          [] platformId = "email" ->
                IF emailLinkTypeOf(pConfig) = "mailto"
                THEN validators_email(contactId)
                ELSE validators_url(contactId)
          [] OTHER -> Undefined

(***************************************************************************)
(* Platform metadata and the default configuration (constants)             *)
(***************************************************************************)
PLATFORMS ==
    << [id |-> "whatsapp", name |-> <<"WhatsApp">>],
       [id |-> "messenger", name |-> <<"Facebook Messenger">>],
       [id |-> "telegram", name |-> <<"Telegram">>],
       [id |-> "phone", name |-> <<"Phone Call">>],
       [id |-> "email", name |-> <<"Email / Contact Form">>] >>

\* type Platform
Platform == {PLATFORMS[i].id : i \in 1..Len(PLATFORMS)}

PLATFORM_DETAILS ==
    [whatsapp |->
        [defaultColor |-> <<"#", "2", "5", "D", "3", "6", "6">>,
         supportsPrefilledMessage |-> TRUE,
         cta |-> <<"Chat with us">>],
     messenger |->
        [defaultColor |-> <<"#", "0", "0", "8", "4", "F", "F">>,
         supportsPrefilledMessage |-> FALSE,
         cta |-> <<"Chat with us">>],
     telegram |->
        [defaultColor |-> <<"#", "2", "A", "A", "B", "E", "E">>,
         supportsPrefilledMessage |-> FALSE,
         cta |-> <<"Chat with us">>],
     phone |->
        [defaultColor |-> <<"#", "4", "C", "A", "F", "5", "0">>,
         supportsPrefilledMessage |-> FALSE,
         cta |-> <<"Call us">>],
     email |->
        [defaultColor |-> <<"#", "7", "5", "7", "5", "7", "5">>,
         supportsPrefilledMessage |-> FALSE,
         cta |-> <<"Email us">>]]

DEFAULT_CONFIG ==
    [platforms |->
        [whatsapp |->
            [enabled |-> TRUE,
             contactId |-> <<"1", "5", "5", "5", "1", "2", "3", "4", "5", "6", "7">>,
             predefinedMessage |->
                 <<"H", "e", "l", "l", "o", "!", " ", "I", " ", "h", "a", "v",
                   "e", " ", "a", " ", "q", "u", "e", "s", "t", "i", "o", "n",
                   " ", "a", "b", "o", "u", "t", " ", "y", "o", "u", "r", " ",
                   "s", "e", "r", "v", "i", "c", "e", "s", ".">>],
         messenger |-> [enabled |-> TRUE, contactId |-> <<"M", "e", "t", "a">>],
         telegram |-> [enabled |-> TRUE, contactId |-> <<"m", "y", "c", "h", "a", "n", "n", "e", "l">>],
         phone |->
            [enabled |-> FALSE,
             contactId |-> <<"1", "5", "5", "5", "1", "2", "3", "4", "5", "6", "7">>],
         email |->
            [enabled |-> FALSE,
             contactId |->
                 <<"h", "e", "l", "l", "o", "@", "e", "x", "a", "m", "p", "l", "e", ".", "c", "o", "m">>,
             emailLinkType |-> "mailto"]],
     headerText |-> <<"C", "o", "n", "t", "a", "c", "t", " ", "U", "s">>,
     headerBgColor |-> <<"#", "1", "2", "8", "C", "7", "E">>,
     headerTextColor |-> <<"#", "F", "F", "F", "F", "F", "F">>,
     mainButtonColor |-> <<"#", "2", "5", "D", "3", "6", "6">>,
     mainIconColor |-> <<"#", "F", "F", "F", "F", "F", "F">>,
     position |-> "bottom-right",
     buttonAnimation |-> "pulse",
     widgetShape |-> "rounded",
     menuSpacing |-> "default"]

(***************************************************************************)
(* Code generator (CodeOutput.generateWidgetCode)                          *)
(***************************************************************************)
\* An unpaired UTF-16 surrogate code unit, as one character
LoneSurrogate == "U+D800"

\* `encodeURIComponent` throws
URIError == <<"URIError: URI malformed">>

\* The characters encodeURIComponent leaves as they are
UriUnreserved ==
    Lower \cup Upper \cup Digit \cup {"-", "_", ".", "!", "~", "*", "'", "(", ")"}

\* The percent-encoding of one ASCII character outside UriUnreserved
PercentEncoded(c) ==
    CASE c = " " -> <<"%", "2", "0">>
      [] c = "\t" -> <<"%", "0", "9">>
      [] c = "\n" -> <<"%", "0", "A">>
      [] c = "\r" -> <<"%", "0", "D">>
      [] c = "\"" -> <<"%", "2", "2">>
      [] c = "#" -> <<"%", "2", "3">>
      [] c = "$" -> <<"%", "2", "4">>
      [] c = "%" -> <<"%", "2", "5">>
      [] c = "&" -> <<"%", "2", "6">>
      [] c = "+" -> <<"%", "2", "B">>
      [] c = "," -> <<"%", "2", "C">>
      [] c = "/" -> <<"%", "2", "F">>
      [] c = ":" -> <<"%", "3", "A">>
      [] c = ";" -> <<"%", "3", "B">>
      [] c = "<" -> <<"%", "3", "C">>
      [] c = "=" -> <<"%", "3", "D">>
      [] c = ">" -> <<"%", "3", "E">>
      [] c = "?" -> <<"%", "3", "F">>
      [] c = "@" -> <<"%", "4", "0">>
      [] c = "[" -> <<"%", "5", "B">>
      [] c = "\\" -> <<"%", "5", "C">>
      [] c = "]" -> <<"%", "5", "D">>
      [] c = "^" -> <<"%", "5", "E">>
      [] c = "{" -> <<"%", "7", "B">>
      [] c = "|" -> <<"%", "7", "C">>
      [] c = "}" -> <<"%", "7", "D">>

\* The encodings of the characters of s, one after the other
EncodeChars(s) ==
    Flatten([i \in 1..Len(s) |->
                IF s[i] \in UriUnreserved THEN <<s[i]>> ELSE PercentEncoded(s[i])],
            1, Len(s))

\* encodeURIComponent(s): throws on an unpaired surrogate
encodeURIComponent(s) ==
    IF \E i \in 1..Len(s) : s[i] = LoneSurrogate THEN URIError ELSE EncodeChars(s)

\* An optional field of a platform configuration, '' when it is absent:
\* both are falsy where the code tests the field
FieldOr(pConfig, field) == IF field \in DOMAIN pConfig THEN pConfig[field] ELSE <<>>

\* `https://wa.me/${contactId}?text=${encodeURIComponent(predefinedMessage)}`,
\* given what encodeURIComponent returned or threw
WhatsappTextLink(contactId, encodedMessage) ==
    IF encodedMessage = URIError THEN URIError
    ELSE <<"https://wa.me/">> \o contactId \o <<"?text=">> \o encodedMessage

\* getPlatformLink with ?text= appended whether a message is set or not (C12
\* depends on the test of predefinedMessage)
getPlatformLink_AlwaysText(platform, platformConfig) ==
    IF platform = "whatsapp"
    THEN WhatsappTextLink(platformConfig.contactId,
                          encodeURIComponent(FieldOr(platformConfig, "predefinedMessage")))
    ELSE <<"#">>

\* getPlatformLink with https:// put before a url-type e-mail contactId (C14
\* depends on the value being emitted as it is)
getPlatformLink_SchemeAdded(platform, platformConfig) ==
    IF platform = "email"
    THEN IF emailLinkTypeOf(platformConfig) = "mailto"
         THEN <<"mailto:">> \o platformConfig.contactId
         ELSE <<"https://">> \o platformConfig.contactId
    ELSE <<"#">>

\* The link of a platform, or URIError when building it throws
getPlatformLink(platform, platformConfig) ==
    LET contactId == platformConfig.contactId
        predefinedMessage == FieldOr(platformConfig, "predefinedMessage")
        emailLinkType == emailLinkTypeOf(platformConfig)
    IN  CASE platform = "whatsapp" ->
                IF predefinedMessage # <<>>
                THEN WhatsappTextLink(contactId, encodeURIComponent(predefinedMessage))
                ELSE <<"https://wa.me/">> \o contactId
          [] platform = "messenger" -> <<"https://m.me/">> \o contactId
          [] platform = "telegram" -> <<"https://t.me/">> \o contactId
          [] platform = "phone" -> <<"tel:">> \o StripWhiteSpace(contactId)
          [] platform = "email" ->
                IF emailLinkType = "mailto" THEN <<"mailto:">> \o contactId ELSE contactId
          [] OTHER -> <<"#">>

HtmlOpen ==
    << "\n<!-- Social Contact Widget Container -->\n",
       "<div class=\"scw-widget-container\" id=\"scw-widget\">\n",
       "  <!-- Widget Menu -->\n",
       "  <div class=\"scw-widget-menu\" role=\"dialog\" aria-modal=\"true\" aria-labelledby=\"scw-header-text\" aria-hidden=\"true\">\n",
       "    <div class=\"scw-header\" style=\"background-color: " >>

HtmlHeaderColor ==
    << "; color: " >>

HtmlHeaderText ==
    << ";\">\n",
       "      <span class=\"scw-header-text\" id=\"scw-header-text\">" >>

HtmlCloseButton ==
    << "</span>\n",
       "      <button class=\"scw-close-button\" aria-label=\"Close menu\">\n",
       "        <svg xmlns=\"http://www.w3.org/2000/svg\" width=\"20\" height=\"20\" viewBox=\"0 0 24 24\" fill=\"none\" stroke=\"" >>

HtmlPlatformList ==
    << "\" stroke-width=\"2\" stroke-linecap=\"round\" stroke-linejoin=\"round\"><line x1=\"18\" y1=\"6\" x2=\"6\" y2=\"18\"></line><line x1=\"6\" y1=\"6\" x2=\"18\" y2=\"18\"></line></svg>\n",
       "      </button>\n",
       "    </div>\n",
       "    <div class=\"scw-platform-list\">\n",
       "      " >>

HtmlFab ==
    << "\n    </div>\n",
       "  </div>\n",
       "  <!-- Floating Action Button -->\n",
       "  <button class=\"scw-fab\" aria-label=\"Open contact menu\" aria-haspopup=\"dialog\" aria-expanded=\"false\">\n",
       "    <div class=\"scw-fab-icon-open\">\n",
       "      <svg xmlns=\"http://www.w3.org/2000/svg\" width=\"32\" height=\"32\" viewBox=\"0 0 24 24\" fill=\"none\" stroke=\"" >>

HtmlFabIconClose ==
    << "\" stroke-width=\"2\" stroke-linecap=\"round\" stroke-linejoin=\"round\"><path d=\"M21 15a2 2 0 0 1-2 2H7l-4 4V5a2 2 0 0 1 2-2h14a2 2 0 0 1 2 2z\"></path></svg>\n",
       "    </div>\n",
       "    <div class=\"scw-fab-icon-close\">\n",
       "      <svg xmlns=\"http://www.w3.org/2000/svg\" width=\"32\" height=\"32\" viewBox=\"0 0 24 24\" fill=\"none\" stroke=\"" >>

HtmlEnd ==
    << "\" stroke-width=\"2\" stroke-linecap=\"round\" stroke-linejoin=\"round\"><line x1=\"18\" y1=\"6\" x2=\"6\" y2=\"18\"></line><line x1=\"6\" y1=\"6\" x2=\"18\" y2=\"18\"></line></svg>\n",
       "    </div>\n",
       "  </button>\n",
       "</div>" >>

ItemOpen ==
    << "\n      <a href=\"" >>

ItemIcon ==
    << "\" target=\"_blank\" rel=\"noopener noreferrer\" class=\"scw-platform-item\">\n",
       "        <div class=\"scw-platform-icon\" style=\"background-color: " >>

ItemIconClose ==
    << ";\">\n",
       "          " >>

ItemName ==
    << "\n        </div>\n",
       "        <div class=\"scw-platform-info\">\n",
       "          <p class=\"scw-platform-name\">" >>

ItemCta ==
    << "</p>\n",
       "          <p class=\"scw-platform-cta\">" >>

ItemClose ==
    << "</p>\n",
       "        </div>\n",
       "        <svg class=\"scw-arrow-icon\" xmlns=\"http://www.w3.org/2000/svg\" width=\"20\" height=\"20\" viewBox=\"0 0 24 24\" fill=\"none\" stroke=\"currentColor\" stroke-width=\"2\" stroke-linecap=\"round\" stroke-linejoin=\"round\"><polyline points=\"9 18 15 12 9 6\"></polyline></svg>\n",
       "      </a>" >>

CssContainer ==
    << "\n<style>\n",
       "  .scw-widget-container {\n",
       "    position: fixed;\n",
       "    z-index: 9999;\n",
       "    font-family: -apple-system, BlinkMacSystemFont, \"Segoe UI\", Roboto, \"Helvetica Neue\", Arial, sans-serif;\n",
       "    " >>

CssMenu ==
    << "\n  }\n",
       "  .scw-widget-menu {\n",
       "    width: 300px;\n",
       "    margin-bottom: 1rem;\n",
       "    background-color: #fff;\n",
       "    border-radius: 8px;\n",
       "    box-shadow: 0 10px 20px rgba(0,0,0,0.1), 0 3px 6px rgba(0,0,0,0.1);\n",
       "    overflow: hidden;\n",
       "    transform: scale(0.95);\n",
       "    opacity: 0;\n",
       "    visibility: hidden;\n",
       "    transition: transform 0.2s ease-out, opacity 0.2s ease-out, visibility 0s 0.2s;\n",
       "    position: absolute;\n",
       "    bottom: 100%;\n",
       "    transform-origin: " >>

CssMenuSide ==
    << ";\n",
       "    " >>

CssOpenMenu ==
    << "\n  }\n",
       "  .scw-widget-container.open .scw-widget-menu {\n",
       "    transform: scale(1);\n",
       "    opacity: 1;\n",
       "    visibility: visible;\n",
       "    transition: transform 0.2s ease-out, opacity 0.2s ease-out;\n",
       "  }\n",
       "  .scw-header {\n",
       "    padding: 1rem;\n",
       "    display: flex;\n",
       "    justify-content: space-between;\n",
       "    align-items: center;\n",
       "  }\n",
       "  .scw-header-text {\n",
       "    font-weight: bold;\n",
       "    font-size: 1.1rem;\n",
       "  }\n",
       "  .scw-close-button {\n",
       "    background: none;\n",
       "    border: none;\n",
       "    cursor: pointer;\n",
       "    padding: 0;\n",
       "    opacity: 0.8;\n",
       "    transition: opacity 0.2s;\n",
       "  }\n",
       "  .scw-close-button:hover { opacity: 1; }\n",
       "  .scw-platform-list {\n",
       "    padding: 0.5rem;\n",
       "    display: flex;\n",
       "    flex-direction: column;\n",
       "    gap: " >>

CssPlatformItem ==
    << ";\n",
       "  }\n",
       "  .scw-platform-item {\n",
       "    display: flex;\n",
       "    align-items: center;\n",
       "    gap: 1rem;\n",
       "    padding: 0.75rem;\n",
       "    border-radius: 8px;\n",
       "    text-decoration: none;\n",
       "    color: inherit;\n",
       "    transition: background-color 0.2s;\n",
       "  }\n",
       "  .scw-platform-item:hover { background-color: #f3f4f6; }\n",
       "  .scw-platform-icon {\n",
       "    width: 40px;\n",
       "    height: 40px;\n",
       "    border-radius: " >>

CssPlatformIcon ==
    << ";\n",
       "    display: flex;\n",
       "    align-items: center;\n",
       "    justify-content: center;\n",
       "    flex-shrink: 0;\n",
       "    color: #fff; /* For custom SVGs using currentColor */\n",
       "  }\n",
       "  .scw-platform-icon svg {\n",
       "    width: 24px;\n",
       "    height: 24px;\n",
       "  }\n",
       "  .scw-platform-info { flex-grow: 1; }\n",
       "  .scw-platform-name { font-weight: 600; font-size: 0.95rem; color: #111827; }\n",
       "  .scw-platform-cta { font-size: 0.85rem; color: #6b7280; }\n",
       "  .scw-arrow-icon { color: #9ca3af; margin-left: auto; }\n",
       "  .scw-fab {\n",
       "    width: 64px;\n",
       "    height: 64px;\n",
       "    background-color: " >>

CssFabRadius ==
    << ";\n",
       "    border-radius: " >>

CssFab ==
    << ";\n",
       "    border: none;\n",
       "    cursor: pointer;\n",
       "    display: flex;\n",
       "    align-items: center;\n",
       "    justify-content: center;\n",
       "    box-shadow: 0 4px 12px rgba(0,0,0,0.2);\n",
       "    transition: transform 0.2s ease-in-out;\n",
       "    position: relative;\n",
       "    overflow: hidden;\n",
       "  }\n",
       "  .scw-fab:hover { transform: scale(1.05); }\n",
       "  .scw-fab-icon-open, .scw-fab-icon-close {\n",
       "    position: absolute;\n",
       "    transition: transform 0.3s ease, opacity 0.3s ease;\n",
       "  }\n",
       "  .scw-fab-icon-open { transform: rotate(0) scale(1); opacity: 1; }\n",
       "  .scw-widget-container.open .scw-fab-icon-open { transform: rotate(-90deg) scale(0); opacity: 0; }\n",
       "  .scw-fab-icon-close { transform: rotate(90deg) scale(0); opacity: 0; }\n",
       "  .scw-widget-container.open .scw-fab-icon-close { transform: rotate(0) scale(1); opacity: 1; }\n",
       "  " >>

CssEnd ==
    << "\n</style>" >>

js ==
    << "\n<script>\n",
       "  document.addEventListener('DOMContentLoaded', function() {\n",
       "    const widgetContainer = document.getElementById('scw-widget');\n",
       "    if (!widgetContainer) return;\n",
       "\n    const fab = widgetContainer.querySelector('.scw-fab');\n",
       "    const menu = widgetContainer.querySelector('.scw-widget-menu');\n",
       "    const closeButton = widgetContainer.querySelector('.scw-close-button');\n",
       "\n    if (!fab || !menu || !closeButton) return;\n",
       "\n    const focusableElements = menu.querySelectorAll('a[href], button');\n",
       "    const firstFocusableElement = focusableElements[0];\n",
       "    const lastFocusableElement = focusableElements[focusableElements.length - 1];\n",
       "\n    const openWidget = () => {\n",
       "      widgetContainer.classList.add('open');\n",
       "      fab.setAttribute('aria-expanded', 'true');\n",
       "      menu.setAttribute('aria-hidden', 'false');\n",
       "      if (firstFocusableElement) {\n",
       "        firstFocusableElement.focus();\n",
       "      }\n",
       "      document.addEventListener('keydown', handleKeyDown);\n",
       "    };\n",
       "\n    const closeWidget = () => {\n",
       "      widgetContainer.classList.remove('open');\n",
       "      fab.setAttribute('aria-expanded', 'false');\n",
       "      menu.setAttribute('aria-hidden', 'true');\n",
       "      fab.focus();\n",
       "      document.removeEventListener('keydown', handleKeyDown);\n",
       "    };\n",
       "\n    const handleKeyDown = (e) => {\n",
       "      if (e.key === 'Escape') {\n",
       "        closeWidget();\n",
       "        return;\n",
       "      }\n",
       "      \n",
       "      if (!focusableElements || focusableElements.length === 0) return;\n",
       "\n      if (e.key === 'Tab') {\n",
       "        if (e.shiftKey) { // Shift + Tab\n",
       "          if (document.activeElement === firstFocusableElement) {\n",
       "            e.preventDefault();\n",
       "            lastFocusableElement.focus();\n",
       "          }\n",
       "        } else { // Tab\n",
       "          if (document.activeElement === lastFocusableElement) {\n",
       "            e.preventDefault();\n",
       "            firstFocusableElement.focus();\n",
       "          }\n",
       "        }\n",
       "      }\n",
       "    };\n",
       "\n    fab.addEventListener('click', () => {\n",
       "      const isOpen = widgetContainer.classList.contains('open');\n",
       "      if (isOpen) {\n",
       "        closeWidget();\n",
       "      } else {\n",
       "        openWidget();\n",
       "      }\n",
       "    });\n",
       "\n    closeButton.addEventListener('click', closeWidget);\n",
       "  });\n",
       "</script>" >>

Animation_pulse ==
    << "\n  .scw-fab {\n",
       "    animation: scw-pulse 2s infinite cubic-bezier(0.4, 0, 0.6, 1);\n",
       "  }\n",
       "  @keyframes scw-pulse {\n",
       "    0%, 100% { transform: scale(1); }\n",
       "    50% { transform: scale(1.1); }\n",
       "  }" >>

Animation_bounce ==
    << "\n  .scw-fab {\n",
       "    animation: scw-bounce 1.5s infinite ease-in-out;\n",
       "  }\n",
       "  @keyframes scw-bounce {\n",
       "    0%, 100% { transform: translateY(0); }\n",
       "    50% { transform: translateY(-15%); }\n",
       "  }" >>

Animation_fade ==
    << "\n  .scw-fab {\n",
       "    animation: scw-fade 2.5s infinite linear;\n",
       "  }\n",
       "  @keyframes scw-fade {\n",
       "    0%, 100% { opacity: 1; }\n",
       "    50% { opacity: 0.6; }\n",
       "  }" >>

Animation_shake ==
    << "\n  .scw-fab {\n",
       "    animation: scw-shake 0.8s infinite ease-in-out;\n",
       "  }\n",
       "  @keyframes scw-shake {\n",
       "    0%, 100% { transform: translateX(0); }\n",
       "    10%, 30%, 50%, 70%, 90% { transform: translateX(-5px); }\n",
       "    20%, 40%, 60%, 80% { transform: translateX(5px); }\n",
       "  }" >>

\* getAnimationCss that returns the pulse block whatever the animation (C15
\* depends on the selection)
getAnimationCss_AlwaysPulse(animation) == Animation_pulse

getAnimationCss(animation) ==
    CASE animation = "pulse" -> Animation_pulse
      [] animation = "bounce" -> Animation_bounce
      [] animation = "fade" -> Animation_fade
      [] animation = "shake" -> Animation_shake
      [] OTHER -> <<>>

spacingValues == [compact |-> <<"0.125rem">>, default |-> <<"0.25rem">>, relaxed |-> <<"0.5rem">>]

\* The built-in icon of a platform in a colour (components/icons/getIconSvgString)
getIconSvgString(platform, color) == <<"<svg built-in icon: ", platform, " fill=">> \o color \o <<">">>

\* enabledPlatforms without the filter (C1 depends on the filter)
enabledPlatforms_Unfiltered(cfg) == PLATFORMS

\* enabledPlatforms: PLATFORMS.filter(p => config.platforms[p.id].enabled)
enabledPlatforms(cfg) == SelectSeq(PLATFORMS, LAMBDA p : cfg.platforms[p.id].enabled)

\* The element with an override taken whenever it is present, empty or not
\* (C24 depends on an empty override counting as none)
PlatformItem_PresentOverride(cfg, p) ==
    LET platformConfig == cfg.platforms[p.id]
        iconHtml == IF "customIconSvg" \in DOMAIN platformConfig
                    THEN platformConfig.customIconSvg
                    ELSE getIconSvgString(p.id, <<"#FFFFFF">>)
        bgColor == IF "color" \in DOMAIN platformConfig
                   THEN platformConfig.color
                   ELSE PLATFORM_DETAILS[p.id].defaultColor
    IN  ItemOpen \o getPlatformLink(p.id, platformConfig) \o ItemIcon \o bgColor
        \o ItemIconClose \o iconHtml \o ItemName \o p.name \o ItemCta
        \o PLATFORM_DETAILS[p.id].cta \o ItemClose

\* One element of enabledPlatforms.map(p => ...)
PlatformItem(cfg, p) ==
    LET platformConfig == cfg.platforms[p.id]
        iconHtml == IF FieldOr(platformConfig, "customIconSvg") # <<>>
                    THEN platformConfig.customIconSvg
                    ELSE getIconSvgString(p.id, <<"#FFFFFF">>)
        bgColor == IF FieldOr(platformConfig, "color") # <<>>
                   THEN platformConfig.color
                   ELSE PLATFORM_DETAILS[p.id].defaultColor
    IN  ItemOpen \o getPlatformLink(p.id, platformConfig) \o ItemIcon \o bgColor
        \o ItemIconClose \o iconHtml \o ItemName \o p.name \o ItemCta
        \o PLATFORM_DETAILS[p.id].cta \o ItemClose

\* items.join('\n      ')
RECURSIVE JoinItems(_)
JoinItems(items) ==
    IF items = <<>> THEN <<>>
    ELSE IF Len(items) = 1 THEN items[1]
    ELSE items[1] \o <<"\n      ">> \o JoinItems(Tail(items))

html(cfg) ==
    LET enabled == enabledPlatforms(cfg)
    IN  HtmlOpen \o cfg.headerBgColor \o HtmlHeaderColor \o cfg.headerTextColor
        \o HtmlHeaderText \o cfg.headerText \o HtmlCloseButton \o cfg.headerTextColor
        \o HtmlPlatformList
        \o JoinItems([i \in 1..Len(enabled) |-> PlatformItem(cfg, enabled[i])])
        \o HtmlFab \o cfg.mainIconColor \o HtmlFabIconClose \o cfg.mainIconColor
        \o HtmlEnd

css(cfg) ==
    LET menuSpacingValue == spacingValues[cfg.menuSpacing]
        fabBorderRadius == IF cfg.widgetShape = "rounded" THEN <<"50%">> ELSE <<"16px">>
        platformIconBorderRadius ==
            IF cfg.widgetShape = "rounded" THEN <<"50%">> ELSE <<"8px">>
        positionStyles == IF cfg.position = "bottom-right"
                          THEN <<"bottom: 2rem; right: 2rem;">>
                          ELSE <<"bottom: 2rem; left: 2rem;">>
        menuTransformOrigin == IF cfg.position = "bottom-right"
                               THEN <<"bottom right">> ELSE <<"bottom left">>
    IN  CssContainer \o positionStyles \o CssMenu \o menuTransformOrigin \o CssMenuSide
        \o (IF cfg.position = "bottom-right" THEN <<"right: 0;">> ELSE <<"left: 0;">>)
        \o CssOpenMenu \o menuSpacingValue \o CssPlatformItem \o platformIconBorderRadius
        \o CssPlatformIcon \o cfg.mainButtonColor \o CssFabRadius \o fabBorderRadius
        \o CssFab \o getAnimationCss(cfg.buttonAnimation) \o CssEnd

StartMarker == "<!-- Start Social Contact Widget -->\n"
EndMarker == "\n<!-- End Social Contact Widget -->"

\* The template with the script before the style sheet (C19 depends on the
\* order of the sections)
Bundle_ScriptFirst(cfg, htmlPart) ==
    IF \E i \in 1..Len(htmlPart) : <<htmlPart[i]>> = URIError THEN URIError
    ELSE <<StartMarker>> \o htmlPart \o <<"\n">> \o js \o <<"\n">> \o css(cfg)
         \o <<EndMarker>>

\* The returned template, given the html part; an error thrown while a link
\* of the html part was built leaves the function at that point
Bundle(cfg, htmlPart) ==
    IF \E i \in 1..Len(htmlPart) : <<htmlPart[i]>> = URIError THEN URIError
    ELSE <<StartMarker>> \o htmlPart \o <<"\n">> \o css(cfg) \o <<"\n">> \o js
         \o <<EndMarker>>

\* The bundle, or URIError when building a link throws
generateWidgetCode(cfg) == Bundle(cfg, html(cfg))

(***************************************************************************)
(* The application: App's config state, Configurator's edit handlers and   *)
(* validation effect, CodeOutput's generation effect                        *)
(***************************************************************************)
MaxEdits == 3

HeaderTextInputs == {<<>>, <<"H", "i">>}

\* Values of an <input type="color">: lower-case #rrggbb
ColorInputs ==
    {<<"#", "f", "f", "0", "0", "0", "0">>, <<"#", "2", "5", "d", "3", "6", "6">>}

ContactInputs ==
    {<<>>,
     <<"+", "1", " ", "5", "5", "5">>,
     <<" ", "1", "2", "3", "4", "5", "6", "7", " ">>,
     <<"a", "@", "b", ".", "c", "o">>,
     <<"/", "c">>}

MessageInputs == {<<>>, <<"H", "i">>, <<"a", " ", "b">>, <<"a", LoneSurrogate>>}

IconInputs == {<<"<", "s", "v", "g", "/", ">">>}

ColorFields == {"headerBgColor", "headerTextColor", "mainButtonColor", "mainIconColor"}

\* The choices of the four button groups of the Appearance section
RadioChoices ==
    ({"widgetShape"} \X {"rounded", "square"})
    \cup ({"menuSpacing"} \X {"compact", "default", "relaxed"})
    \cup ({"buttonAnimation"} \X {"none", "pulse", "bounce", "fade", "shake"})
    \cup ({"position"} \X {"bottom-right", "bottom-left"})

\* An event handler runs once the effects of the last render have run
CanEdit == mounted /\ pending = {} /\ edits < MaxEdits

\* setConfig(prev => next): a new configuration object, so both effects run again
setConfig(next) ==
    /\ config' = next
    /\ pending' = {"validate", "generate"}
    /\ edits' = edits + 1
    /\ UNCHANGED <<errors, code, mounted, vIn, vOut, widget, copyState>>

\* The spread of the defaults instead of the previous configuration (C21
\* depends on the other fields being carried over)
FieldUpdate_FromDefaults(prev, name, value) == [DEFAULT_CONFIG EXCEPT ![name] = value]

\* { ...prev, [name]: value }
FieldUpdate(prev, name, value) == [prev EXCEPT ![name] = value]

handleInputChange(name, value) == setConfig(FieldUpdate(config, name, value))

handleColorChange(name, value) == setConfig(FieldUpdate(config, name, value))

handleRadioChange(name, value) == setConfig(FieldUpdate(config, name, value))

\* The updater of handlePlatformToggle, removing the entry of a platform that
\* is disabled (C17 depends on the entry being kept)
PlatformToggleUpdate_Removes(prevConfig, platformId) ==
    IF prevConfig.platforms[platformId].enabled
    THEN [prevConfig EXCEPT !.platforms =
            [p \in DOMAIN prevConfig.platforms \ {platformId} |-> prevConfig.platforms[p]]]
    ELSE [prevConfig EXCEPT !.platforms[platformId].enabled = TRUE]

\* The updater of handlePlatformToggle, storing the default colour as well
\* (C16 depends on the toggle leaving the colour alone)
PlatformToggleUpdate_StoresColor(prevConfig, platformId) ==
    [prevConfig EXCEPT !.platforms[platformId] =
        [f \in DOMAIN prevConfig.platforms[platformId] \cup {"color"} |->
            IF f = "color" THEN PLATFORM_DETAILS[platformId].defaultColor
            ELSE IF f = "enabled" THEN ~prevConfig.platforms[platformId].enabled
            ELSE prevConfig.platforms[platformId][f]]]

\* The updater of handlePlatformToggle
PlatformToggleUpdate(prevConfig, platformId) ==
    [prevConfig EXCEPT !.platforms[platformId].enabled = ~prevConfig.platforms[platformId].enabled]

handlePlatformToggle(platformId) == setConfig(PlatformToggleUpdate(config, platformId))

\* The updater of handlePlatformFieldChange without the reset of contactId
\* (C4 depends on the reset)
PlatformFieldUpdate_NoReset(prevConfig, platformId, field, value) ==
    [prevConfig EXCEPT !.platforms[platformId] =
        [f \in DOMAIN prevConfig.platforms[platformId] \cup {field} |->
            IF f = field THEN value ELSE prevConfig.platforms[platformId][f]]]

\* The updater of handlePlatformFieldChange emptying contactId only when the
\* link type changes (C27 depends on the reset being unconditional)
PlatformFieldUpdate_ResetOnChange(prevConfig, platformId, field, value) ==
    LET old == prevConfig.platforms[platformId]
        spread == [f \in DOMAIN old \cup {field} |-> IF f = field THEN value ELSE old[f]]
    IN  [prevConfig EXCEPT !.platforms[platformId] =
            IF platformId = "email" /\ field = "emailLinkType"
               /\ FieldOr(old, "emailLinkType") # value
            THEN [spread EXCEPT !.contactId = <<>>]
            ELSE spread]

\* The updater of handlePlatformFieldChange
PlatformFieldUpdate(prevConfig, platformId, field, value) ==
    LET old == prevConfig.platforms[platformId]
        spread == [f \in DOMAIN old \cup {field} |-> IF f = field THEN value ELSE old[f]]
        updatedPlatformConfig ==
            IF platformId = "email" /\ field = "emailLinkType"
            THEN [spread EXCEPT !.contactId = <<>>]
            ELSE spread
    IN  [prevConfig EXCEPT !.platforms[platformId] = updatedPlatformConfig]

handlePlatformFieldChange(platformId, field, value) ==
    setConfig(PlatformFieldUpdate(config, platformId, field, value))

\* The controls of the form, with the conditions under which each is rendered
\* and fires
EditHeaderText ==
    /\ CanEdit
    /\ \E value \in HeaderTextInputs :
          value # config.headerText /\ handleInputChange("headerText", value)

EditColor ==
    /\ CanEdit
    /\ \E name \in ColorFields : \E value \in ColorInputs :
          value # toLowerCase(config[name]) /\ handleColorChange(name, value)

SelectRadio ==
    /\ CanEdit
    /\ \E choice \in RadioChoices : handleRadioChange(choice[1], choice[2])

TogglePlatform ==
    /\ CanEdit
    /\ \E p \in Platform : handlePlatformToggle(p)

\* The fields of a platform are rendered while the platform is enabled
EditContactId ==
    /\ CanEdit
    /\ \E p \in Platform : \E value \in ContactInputs :
          /\ config.platforms[p].enabled
          /\ value # config.platforms[p].contactId
          /\ handlePlatformFieldChange(p, "contactId", value)

\* The link type buttons with a third choice (C26 depends on the buttons
\* offering mailto and url only)
SelectEmailLinkType_ThirdChoice ==
    /\ CanEdit
    /\ config.platforms.email.enabled
    /\ \E value \in {"mailto", "url", "form"} :
          handlePlatformFieldChange("email", "emailLinkType", value)

SelectEmailLinkType ==
    /\ CanEdit
    /\ config.platforms.email.enabled
    /\ \E value \in {"mailto", "url"} :
          handlePlatformFieldChange("email", "emailLinkType", value)

\* platformConfig.color || platformDetails.defaultColor
DisplayedColor(cfg, p) ==
    IF FieldOr(cfg.platforms[p], "color") # <<>> THEN cfg.platforms[p].color
    ELSE PLATFORM_DETAILS[p].defaultColor

EditPlatformColor ==
    /\ CanEdit
    /\ \E p \in Platform : \E value \in ColorInputs :
          /\ config.platforms[p].enabled
          /\ value # toLowerCase(DisplayedColor(config, p))
          /\ handlePlatformFieldChange(p, "color", value)

\* 'Reset to Default' of the brand colour
ResetPlatformColor ==
    /\ CanEdit
    /\ \E p \in Platform :
          /\ config.platforms[p].enabled
          /\ FieldOr(config.platforms[p], "color") # <<>>
          /\ toLowerCase(config.platforms[p].color)
                # toLowerCase(PLATFORM_DETAILS[p].defaultColor)
          /\ handlePlatformFieldChange(p, "color", <<>>)

EditPredefinedMessage ==
    /\ CanEdit
    /\ \E p \in Platform : \E value \in MessageInputs :
          /\ config.platforms[p].enabled
          /\ PLATFORM_DETAILS[p].supportsPrefilledMessage
          /\ value # FieldOr(config.platforms[p], "predefinedMessage")
          /\ handlePlatformFieldChange(p, "predefinedMessage", value)

EditCustomIcon ==
    /\ CanEdit
    /\ \E p \in Platform : \E value \in IconInputs :
          /\ config.platforms[p].enabled
          /\ value # FieldOr(config.platforms[p], "customIconSvg")
          /\ handlePlatformFieldChange(p, "customIconSvg", value)

\* 'Reset to Default' of the icon, or clearing its text area
ResetCustomIcon ==
    /\ CanEdit
    /\ \E p \in Platform :
          /\ config.platforms[p].enabled
          /\ FieldOr(config.platforms[p], "customIconSvg") # <<>>
          /\ handlePlatformFieldChange(p, "customIconSvg", <<>>)

\* The validation of a platform whether it is enabled or not (C5 depends on
\* the test of `enabled`)
ErrorOf_IgnoringEnabled(cfg, p) == getValidationError(p, cfg.platforms[p])

\* if (platformConfig.enabled) { const error = getValidationError(...) ... }
ErrorOf(cfg, p) ==
    IF cfg.platforms[p].enabled THEN getValidationError(p, cfg.platforms[p]) ELSE Undefined

\* if (error) { newErrors[p.id] = error }
Assigned(found) == [p \in {q \in DOMAIN found : found[q] # Undefined} |-> found[p]]

\* newErrors of Configurator's effect
newErrors(cfg) == Assigned([p \in Platform |-> ErrorOf(cfg, p)])

\* The effect keeping the entries of the previous error map that the new one
\* does not replace (C20 depends on the map being rebuilt from nothing)
ValidationEffect_Merges ==
    /\ mounted
    /\ "validate" \in pending
    /\ errors' = [p \in DOMAIN errors \cup DOMAIN newErrors(config) |->
                    IF p \in DOMAIN newErrors(config) THEN newErrors(config)[p]
                    ELSE errors[p]]
    /\ pending' = pending \ {"validate"}
    /\ UNCHANGED <<config, code, edits, mounted, vIn, vOut, widget, copyState>>

\* Configurator: useEffect(() => { ...; setErrors(newErrors) }, [config])
ValidationEffect ==
    /\ mounted
    /\ "validate" \in pending
    /\ errors' = newErrors(config)
    /\ pending' = pending \ {"validate"}
    /\ UNCHANGED <<config, code, edits, mounted, vIn, vOut, widget, copyState>>

\* setCode(result) once generateWidgetCode has returned; an error it throws is
\* uncaught in the effect, and React unmounts the tree
setCode(result) ==
    IF result = URIError
    THEN mounted' = FALSE /\ UNCHANGED <<code, pending>>
    ELSE /\ code' = result
         /\ pending' = pending \ {"generate"}
         /\ UNCHANGED mounted

\* CodeOutput: useEffect(() => { setCode(generateWidgetCode(config)) }, [config])
GenerationEffect ==
    /\ mounted
    /\ "generate" \in pending
    /\ setCode(generateWidgetCode(config))
    /\ UNCHANGED <<config, errors, edits, vIn, vOut, widget, copyState>>

\* CodeOutput's useState(false) for copied, with no clipboard write in
\* flight, no reset timer pending and no copy click made
NoCopy == [copied |-> FALSE, writes |-> {}, timers |-> <<>>, clicks |-> 0]

\* The bundle has not been pasted into a page
NoPage == [loaded |-> FALSE]

\* No validator call is being looked at
NoCall == [platformId |-> "whatsapp", pConfig |-> DEFAULT_CONFIG.platforms.whatsapp]

Init ==
    /\ config = DEFAULT_CONFIG
    /\ errors = <<>>
    /\ code = <<>>
    /\ pending = {"validate", "generate"}
    /\ edits = 0
    /\ mounted = TRUE
    /\ vIn = NoCall
    /\ vOut = Pending
    /\ widget = NoPage
    /\ copyState = NoCopy

Next ==
    \/ EditHeaderText
    \/ EditColor
    \/ SelectRadio
    \/ TogglePlatform
    \/ EditContactId
    \/ SelectEmailLinkType
    \/ EditPlatformColor
    \/ ResetPlatformColor
    \/ EditPredefinedMessage
    \/ EditCustomIcon
    \/ ResetCustomIcon
    \/ ValidationEffect
    \/ GenerationEffect

Spec == Init /\ [][Next]_vars

(***************************************************************************)
(* Validator calls on bounded inputs                                       *)
(***************************************************************************)
MaxShortLen == 2
MaxMidLen == 5

ShortAlphabet == {"1", "a", "_", " ", "\n", "+", "(", "-", "@", ".", "/", "#", ":"}
MidAlphabet == {"a", "@", ".", " "}

StringsOver(alphabet, maxLen) == UNION {[1..n -> alphabet] : n \in 0..maxLen}

\* Run lengths at and around the validators' length limits
RunLens ==
    {WhatsappMinLen - 1, WhatsappMinLen, WhatsappMaxLen, WhatsappMaxLen + 1,
     TelegramMinLen - 1, TelegramMinLen, TelegramMaxLen, TelegramMaxLen + 1}

\* One or two runs of a digit or a letter, with a separator between them and
\* white space around them
RunInputs(lens) ==
    {pad[1] \o Rep(c[1], n1) \o sep \o Rep(c[2], n2) \o pad[2] :
        pad \in {<<>>, <<" ">>} \X {<<>>, <<" ">>},
        c \in {"1", "a"} \X {"1", "a"},
        n1 \in lens,
        n2 \in {0, 1, PhoneDigitRun - 1, PhoneDigitRun},
        sep \in {<<>>, <<" ">>, <<"\n">>, <<"-">>, <<"_">>, <<"+">>}}

\* The contact ids of the documentation and of the default configuration
ExampleInputs ==
    {<<"+", "1", " ", "5", "5", "5">>,
     <<"1", "5", "5", "5", "1", "2", "3", "4", "5", "6", "7">>,
     <<"a", "b">>,
     <<"m", "y", "_", "c", "h", "a", "n", "n", "e", "l", "1">>,
     <<" ", "a", "@", "b", ".", "c", "o", " ">>,
     <<"h", "e", "l", "l", "o", "@", "e", "x", "a", "m", "p", "l", "e", ".", "c", "o", "m">>,
     <<"+", "1", " ", "(", "5", "5", "5", ")", " ", "1", "2", "3", "-", "4", "5", "6", "7">>,
     <<"M", "e", "t", "a">>,
     <<"m", "y", "c", "h", "a", "n", "n", "e", "l">>,
     <<"/", "c", "o", "n", "t", "a", "c", "t">>,
     <<"e", "x", "a", "m", "p", "l", "e", ".", "c", "o", "m">>,
     <<"h", "t", "t", "p", "s", ":", "/", "/", "e", "x", "a", "m", "p", "l", "e", ".", "c", "o", "m">>}

\* URLs and host names, with and without a scheme
UrlSchemes ==
    {<<>>,
     <<"h", "t", "t", "p", ":", "/", "/">>,
     <<"h", "t", "t", "p", "s", ":", "/", "/">>,
     <<"H", "T", "T", "P", ":", "/", "/">>,
     <<"h", "t", "t", "p", "s", ":", "/">>}

UrlHosts ==
    {<<>>,
     <<"a">>,
     <<"a", ".", "b">>,
     <<"1">>,
     <<"a", " ", "b">>,
     <<"u", "@", "a", ".", "b">>,
     <<"a", ".", "b", ":", "8", "0">>,
     <<"a", ".", "b", ":", "x">>,
     <<"1", ".", "2", ".", "3", ".", "4", ".", "5">>,
     <<".">>}

UrlInputs == {scheme \o host \o tail : scheme \in UrlSchemes, host \in UrlHosts, tail \in {<<>>, <<"/", "p">>}}

\* The contact ids the validators are called with
ValidatorInputs(shortLen, midLen) ==
    StringsOver(ShortAlphabet, shortLen) \cup StringsOver(MidAlphabet, midLen)
        \cup RunInputs(RunLens) \cup ExampleInputs \cup UrlInputs

\* The platform configurations a validator call is made with
ValidatorConfigs(values) ==
    {[platformId |-> p, pConfig |-> [enabled |-> TRUE, contactId |-> v]] :
        p \in Platform, v \in values}
    \cup
    {[platformId |-> "email",
      pConfig |-> [enabled |-> TRUE, contactId |-> v, emailLinkType |-> t]] :
        v \in values, t \in {"mailto", "url"}}

AppUnchanged == UNCHANGED <<config, errors, code, pending, edits, mounted>>

ValInit ==
    /\ config = DEFAULT_CONFIG
    /\ errors = <<>>
    /\ code = <<>>
    /\ pending = {}
    /\ edits = 0
    /\ mounted = TRUE
    /\ vIn \in ValidatorConfigs(ValidatorInputs(MaxShortLen, MaxMidLen))
    /\ vOut = Pending
    /\ widget = NoPage
    /\ copyState = NoCopy

\* const error = getValidationError(p.id, platformConfig)
ValidatorCall ==
    /\ vOut = Pending
    /\ vOut' = getValidationError(vIn.platformId, vIn.pConfig)
    /\ UNCHANGED <<vIn, widget, copyState>>
    /\ AppUnchanged

ValNext == ValidatorCall

ValSpec == ValInit /\ [][ValNext]_vars

(***************************************************************************)
(* Generator calls on bounded configurations                               *)
(***************************************************************************)
\* The contact ids the generator is called with
GeneratorContactInputs ==
    ContactInputs
    \cup {<<"+", "1", " ", "(", "5", "5", "5", ")", " ", "1", "2", "3", "-", "4", "5", "6", "7">>,
          <<"1", "\t", "2", "\n", "3">>,
          <<"e", "x", "a", "m", "p", "l", "e", ".", "c", "o", "m">>,
          <<"h", "t", "t", "p", "s", ":", "/", "/", "e", "x", "a", "m", "p", "l", "e", ".", "c", "o", "m", "/", "c", "o", "n", "t", "a", "c", "t">>}

\* DEFAULT_CONFIG with exactly the platforms of `enabled` enabled
WithEnabled(enabled) ==
    [DEFAULT_CONFIG EXCEPT !.platforms =
        [p \in Platform |-> [DEFAULT_CONFIG.platforms[p] EXCEPT !.enabled = p \in enabled]]]

\* The configurations the generator is called with: every set of enabled
\* platforms, alone and with one field of the form changed
GeneratorConfigs(bases) ==
    bases
    \cup {PlatformFieldUpdate(b, p, "contactId", v) :
            b \in bases, p \in Platform, v \in GeneratorContactInputs}
    \cup {[b EXCEPT !.platforms.email =
                [enabled |-> b.platforms.email.enabled, contactId |-> v,
                 emailLinkType |-> t]] :
            b \in bases, v \in GeneratorContactInputs, t \in {"mailto", "url"}}
    \cup {[b EXCEPT !.platforms.email =
                [enabled |-> b.platforms.email.enabled, contactId |-> v]] :
            b \in bases, v \in GeneratorContactInputs}
    \cup {PlatformFieldUpdate(b, "whatsapp", "predefinedMessage", m) :
            b \in bases, m \in MessageInputs}
    \cup {[b EXCEPT !.platforms.whatsapp =
                [enabled |-> b.platforms.whatsapp.enabled, contactId |-> v]] :
            b \in bases, v \in ContactInputs}
    \cup {PlatformFieldUpdate(b, "email", "emailLinkType", t) :
            b \in bases, t \in {"mailto", "url"}}
    \cup {PlatformFieldUpdate(b, p, "customIconSvg", v) :
            b \in bases, p \in Platform, v \in IconInputs \cup {<<>>}}
    \cup {PlatformFieldUpdate(b, p, "color", v) :
            b \in bases, p \in Platform, v \in ColorInputs \cup {<<>>}}
    \cup {FieldUpdate(b, choice[1], choice[2]) : b \in bases, choice \in RadioChoices}
    \cup {FieldUpdate(b, "headerText", v) : b \in bases, v \in HeaderTextInputs}

GenInit ==
    /\ config \in GeneratorConfigs({WithEnabled(enabled) : enabled \in SUBSET Platform})
    /\ errors = <<>>
    /\ code = <<>>
    /\ pending = {"generate"}
    /\ edits = 0
    /\ mounted = TRUE
    /\ vIn = NoCall
    /\ vOut = Pending
    /\ widget = NoPage
    /\ copyState = NoCopy

GenNext == GenerationEffect

GenSpec == GenInit /\ [][GenNext]_vars

(***************************************************************************)
(* Properties of the validators (checked under ValSpec)                    *)
(***************************************************************************)
vValue == vIn.pConfig.contactId
vTrimmed == trim(vValue)
vCalled == vOut # Pending
vAccepted == vOut = Undefined

OnlyWhiteSpace(s) == \A i \in 1..Len(s) : s[i] \in WhiteSpace

\* C6: whatever the platform id and, for email, the link type, a contactId
\* that is empty or holds white space only gets an error message from the
\* validator, never "no error".
C6_EmptyNeverAccepted ==
    vCalled /\ OnlyWhiteSpace(vValue) => vOut \notin {Undefined, Pending}

C6_Witness ==
    /\ vCalled
    /\ vIn.platformId = "messenger"
    /\ vValue = <<" ", "\n">>
    /\ vOut = "Page ID or username is required."

\* C7: for whatsapp the validator reports no error exactly when the trimmed
\* contactId is non-empty, holds digits only and has 7 to 15 characters;
\* "+1 555" is rejected and "15551234567" is accepted.
C7_WhatsappRule ==
    vCalled /\ vIn.platformId = "whatsapp" =>
        /\ vAccepted <=>
              /\ vTrimmed # <<>>
              /\ \A i \in 1..Len(vTrimmed) : vTrimmed[i] \in Digit
              /\ Len(vTrimmed) \in 7..15
        /\ vValue = <<"+", "1", " ", "5", "5", "5">> => ~vAccepted
        /\ vValue = <<"1", "5", "5", "5", "1", "2", "3", "4", "5", "6", "7">> => vAccepted

C7_Witness ==
    /\ vCalled
    /\ vIn.platformId = "whatsapp"
    /\ vAccepted
    /\ Len(vTrimmed) = 15
    /\ Len(vValue) > Len(vTrimmed)

\* C8: for telegram the validator reports no error exactly when the trimmed
\* contactId holds only letters, digits and "_" and has 5 to 32 characters;
\* "ab" is rejected and "my_channel1" is accepted.
C8_TelegramRule ==
    vCalled /\ vIn.platformId = "telegram" =>
        /\ vAccepted <=>
              /\ \A i \in 1..Len(vTrimmed) :
                    vTrimmed[i] \in Lower \cup Upper \cup Digit \cup {"_"}
              /\ Len(vTrimmed) \in 5..32
        /\ vValue = <<"a", "b">> => ~vAccepted
        /\ vValue = <<"m", "y", "_", "c", "h", "a", "n", "n", "e", "l", "1">> => vAccepted

C8_Witness ==
    /\ vCalled
    /\ vIn.platformId = "telegram"
    /\ vAccepted
    /\ Len(vTrimmed) = 32
    /\ Len(vValue) > Len(vTrimmed)

\* A run of at least n consecutive digits somewhere in s
HasDigitRun(s, n) ==
    \E k \in 1..Len(s) : k + n - 1 <= Len(s) /\ \A i \in k..(k + n - 1) : s[i] \in Digit

EmailShape(s) ==
    LET ats == {i \in 1..Len(s) : s[i] = "@"}
    IN  /\ ~\E i \in 1..Len(s) : s[i] \in WhiteSpace
        /\ Cardinality(ats) = 1
        /\ \A at \in ats :
              /\ at > 1
              /\ \E dot \in (at + 2)..(Len(s) - 1) : s[dot] = "."

UrlMessages ==
    {"URL is required.",
     "Please enter a valid URL (e.g., https://example.com) or path (e.g., /contact)."}

\* C10: for email the link type selects the rule: with mailto, no error
\* exactly when the trimmed contactId has the shape local@domain.tld; with
\* url, the result is that of the URL/path rule (a path is accepted, and the
\* messages are the URL rule's), not that of the e-mail address rule.
C10_EmailRuleByLinkType ==
    vCalled /\ vIn.platformId = "email" /\ "emailLinkType" \in DOMAIN vIn.pConfig =>
        /\ vIn.pConfig.emailLinkType = "mailto" => (vAccepted <=> EmailShape(vTrimmed))
        /\ vIn.pConfig.emailLinkType = "url" =>
              /\ vOut \in UrlMessages \cup {Undefined}
              /\ vOut = validators_url(vValue)
              /\ vTrimmed # <<>> /\ vTrimmed[1] \in {"/", "#"} => vAccepted

C10_Witness ==
    /\ vCalled
    /\ vIn.platformId = "email"
    /\ "emailLinkType" \in DOMAIN vIn.pConfig
    /\ vIn.pConfig.emailLinkType = "mailto"
    /\ vAccepted
    /\ vValue = <<" ", "a", "@", "b", ".", "c", "o", " ">>

(***************************************************************************)
(* Properties of the generator (checked under GenSpec) and of the          *)
(* application (checked under Spec)                                        *)
(***************************************************************************)
\* The generation effect has run for the current configuration and returned
Generated == mounted /\ "generate" \notin pending

Canonical == <<"whatsapp", "messenger", "telegram", "phone", "email">>

\* The display name of a platform
NameOf(p) == (CHOOSE i \in 1..Len(PLATFORMS) : PLATFORMS[i].id = p)

\* The number of pieces of a bundle equal to `piece`
Count(bundle, piece) == Cardinality({i \in 1..Len(bundle) : bundle[i] = piece})

\* The platform names of the list entries of a bundle, in the order of the
\* bundle: a list entry is the anchor the generator emits for a platform
EntryNames(bundle) ==
    LET at == SelectSeq([i \in 1..Len(bundle) |-> i],
                        LAMBDA i : i > 1 /\ bundle[i - 1]
                                        = "          <p class=\"scw-platform-name\">")
    IN  [k \in 1..Len(at) |-> bundle[at[k]]]

\* The names of the enabled platforms in the canonical order
EnabledNames(cfg) ==
    LET ids == SelectSeq(Canonical, LAMBDA p : cfg.platforms[p].enabled)
    IN  [k \in 1..Len(ids) |-> PLATFORMS[NameOf(ids[k])].name[1]]

HeaderMarkup == "      <span class=\"scw-header-text\" id=\"scw-header-text\">"
CloseButtonMarkup == "      <button class=\"scw-close-button\" aria-label=\"Close menu\">\n"
FabMarkup ==
    "  <button class=\"scw-fab\" aria-label=\"Open contact menu\" aria-haspopup=\"dialog\" aria-expanded=\"false\">\n"

\* C1: a generated bundle has exactly one platform list entry per enabled
\* platform and none for a disabled one, in the order whatsapp, messenger,
\* telegram, phone, email; with every platform disabled it has no entry and
\* still has the header, the close button and the floating toggle button.
C1_OneEntryPerEnabledPlatform ==
    Generated =>
        /\ EntryNames(code) = EnabledNames(config)
        /\ Count(code, "\n      <a href=\"") = Len(EnabledNames(config))
        /\ Count(code, HeaderMarkup) = 1
        /\ Count(code, CloseButtonMarkup) = 1
        /\ Count(code, FabMarkup) = 1

C1_Witness ==
    /\ Generated
    /\ \A p \in Platform : ~config.platforms[p].enabled
    /\ EntryNames(code) = <<>>
    /\ Count(code, FabMarkup) = 1

\* C2: the generator never fails: whatever edits led to the configuration,
\* the generation effect returns a complete bundle with a link for each
\* enabled platform, and the application goes on.
C2_GeneratorNeverFails ==
    /\ mounted
    /\ "generate" \notin pending =>
          /\ code[1] = StartMarker
          /\ code[Len(code)] = EndMarker
          /\ Count(code, "\n      <a href=\"")
                = Cardinality({p \in Platform : config.platforms[p].enabled})

\* The other link type
OtherLinkType(t) == IF t = "mailto" THEN "url" ELSE "mailto"

\* C4: a step that switches email.emailLinkType leaves email.contactId empty
\* and email.emailLinkType at the new type, whatever contactId held before.
C4_SwitchEmptiesContactId ==
    [][config'.platforms.email.emailLinkType # config.platforms.email.emailLinkType =>
            /\ config'.platforms.email.contactId = <<>>
            /\ config'.platforms.email.emailLinkType
                  = OtherLinkType(config.platforms.email.emailLinkType)]_vars

C4_Witness ==
    /\ config.platforms.email.emailLinkType = "url"
    /\ config.platforms.email.contactId = <<>>
    /\ "validate" \in pending

\* C5: once the validation effect has run for the configuration, the error
\* map has an entry for a platform exactly when the platform is enabled and
\* its validator returns a message for its contactId, and the entry is that
\* message; a disabled platform has no entry.
C5_ErrorsOnlyForEnabled ==
    "validate" \notin pending =>
        \A p \in Platform :
            /\ p \in DOMAIN errors <=>
                  /\ config.platforms[p].enabled
                  /\ getValidationError(p, config.platforms[p]) # Undefined
            /\ p \in DOMAIN errors => errors[p] = getValidationError(p, config.platforms[p])

C5_Witness ==
    /\ "validate" \notin pending
    /\ ~config.platforms.whatsapp.enabled
    /\ config.platforms.whatsapp.contactId = <<>>
    /\ "whatsapp" \notin DOMAIN errors

(***************************************************************************)
(* Properties of the URL rule (checked under ValSpec)                      *)
(***************************************************************************)
\* The value with https:// assumed when it has no http:// or https:// scheme
AssumedHttps(s) ==
    IF \/ StartsWith(toLowerCase(s), <<"h", "t", "t", "p", ":", "/", "/">>)
       \/ StartsWith(toLowerCase(s), <<"h", "t", "t", "p", "s", ":", "/", "/">>)
    THEN s
    ELSE <<"h", "t", "t", "p", "s", ":", "/", "/">> \o s

\* The URL parses and its hostname has a "."
ParsesWithDottedHost(url) ==
    /\ URLHostname(url) # Failure
    /\ \E i \in 1..Len(URLHostname(url)) : URLHostname(url)[i] = "."

vUrlType ==
    /\ vIn.platformId = "email"
    /\ "emailLinkType" \in DOMAIN vIn.pConfig
    /\ vIn.pConfig.emailLinkType = "url"

\* C11: for email with the url link type, a non-empty trimmed contactId that
\* starts with "/" or "#" is accepted; any other non-empty one is accepted
\* exactly when, with https:// assumed if it has no http(s) scheme, it parses
\* as a URL whose hostname has a ".".
C11_UrlRule ==
    vCalled /\ vUrlType /\ vTrimmed # <<>> =>
        IF vTrimmed[1] \in {"/", "#"} THEN vAccepted
        ELSE vAccepted <=> ParsesWithDottedHost(AssumedHttps(vTrimmed))

C11_Witness ==
    /\ vCalled
    /\ vUrlType
    /\ vValue = <<"e", "x", "a", "m", "p", "l", "e", ".", "c", "o", "m">>
    /\ vAccepted

(***************************************************************************)
(* Properties of the links (checked under GenSpec)                         *)
(***************************************************************************)
\* The positions of the list entries of a bundle
EntryStarts(bundle) ==
    SelectSeq([i \in 1..Len(bundle) |-> i], LAMBDA i : bundle[i] = "\n      <a href=\"")

\* The href of the list entry that starts at position `start`
LinkFrom(bundle, start) ==
    Slice(bundle, start + 1,
          FirstIn(bundle, start + 1,
                  {"\" target=\"_blank\" rel=\"noopener noreferrer\" class=\"scw-platform-item\">\n"})
            - 1)

\* The position of an enabled platform among the list entries
EntryIndex(cfg, p) ==
    Cardinality({k \in 1..Len(Canonical) :
                    /\ cfg.platforms[Canonical[k]].enabled
                    /\ k <= (CHOOSE j \in 1..Len(Canonical) : Canonical[j] = p)})

\* The href of the list entry of an enabled platform
LinkOf(bundle, cfg, p) == LinkFrom(bundle, EntryStarts(bundle)[EntryIndex(cfg, p)])

\* The generation effect has run and platform p has a list entry
Linked(p) == Generated /\ config.platforms[p].enabled

\* C12: the whatsapp link is https://wa.me/<contactId>, followed by
\* ?text=<encoded predefinedMessage> exactly when predefinedMessage is
\* present and non-empty; "15551234567" with "Hi" gives
\* https://wa.me/15551234567?text=Hi, and "a b" is encoded as a%20b.
C12_WhatsappLink ==
    Linked("whatsapp") =>
        LET pc == config.platforms.whatsapp
            link == LinkOf(code, config, "whatsapp")
            message == IF "predefinedMessage" \in DOMAIN pc THEN pc.predefinedMessage
                       ELSE <<>>
        IN  /\ link = <<"https://wa.me/">> \o pc.contactId
                        \o (IF message # <<>>
                            THEN <<"?text=">> \o encodeURIComponent(message)
                            ELSE <<>>)
            /\ message = <<"a", " ", "b">> =>
                  link = <<"https://wa.me/">> \o pc.contactId
                         \o <<"?text=", "a", "%", "2", "0", "b">>
            /\ pc.contactId = <<"1", "5", "5", "5", "1", "2", "3", "4", "5", "6", "7">>
                  /\ message = <<"H", "i">> =>
                  link = <<"https://wa.me/", "1", "5", "5", "5", "1", "2", "3", "4", "5",
                           "6", "7", "?text=", "H", "i">>

C12_Witness ==
    /\ Linked("whatsapp")
    /\ "predefinedMessage" \in DOMAIN config.platforms.whatsapp
    /\ config.platforms.whatsapp.predefinedMessage = <<"H", "i">>
    /\ LinkOf(code, config, "whatsapp")
          = <<"https://wa.me/", "1", "5", "5", "5", "1", "2", "3", "4", "5", "6", "7",
              "?text=", "H", "i">>

\* C13: the phone link is tel: followed by the contactId with every white
\* space character removed and every other character kept in order;
\* "+1 (555) 123-4567" gives tel:+1(555)123-4567.
C13_PhoneLink ==
    Linked("phone") =>
        LET contactId == config.platforms.phone.contactId
            link == LinkOf(code, config, "phone")
        IN  /\ link = <<"tel:">>
                        \o SelectSeq(contactId, LAMBDA c : c \notin {" ", "\t", "\n", "\r"})
            /\ contactId = <<"+", "1", " ", "(", "5", "5", "5", ")", " ", "1", "2", "3", "-",
                             "4", "5", "6", "7">> =>
                  link = <<"tel:", "+", "1", "(", "5", "5", "5", ")", "1", "2", "3", "-",
                           "4", "5", "6", "7">>

C13_Witness ==
    /\ Linked("phone")
    /\ config.platforms.phone.contactId
          = <<"+", "1", " ", "(", "5", "5", "5", ")", " ", "1", "2", "3", "-", "4", "5", "6", "7">>
    /\ LinkOf(code, config, "phone")
          = <<"tel:", "+", "1", "(", "5", "5", "5", ")", "1", "2", "3", "-", "4", "5", "6", "7">>

\* C14: the email link is mailto:<contactId> when emailLinkType is mailto and
\* the contactId as it is otherwise, with no scheme added: "example.com",
\* which the validator accepts for the url type, is emitted unchanged.
C14_EmailLink ==
    Linked("email") =>
        LET pc == config.platforms.email
            link == LinkOf(code, config, "email")
        IN  /\ "emailLinkType" \in DOMAIN pc /\ pc.emailLinkType = "mailto" =>
                  link = <<"mailto:">> \o pc.contactId
            /\ ~("emailLinkType" \in DOMAIN pc /\ pc.emailLinkType = "mailto") =>
                  link = pc.contactId
            /\ pc.contactId = <<"e", "x", "a", "m", "p", "l", "e", ".", "c", "o", "m">>
                  /\ "emailLinkType" \in DOMAIN pc /\ pc.emailLinkType = "url" =>
                  /\ getValidationError("email", pc) = Undefined
                  /\ link = <<"e", "x", "a", "m", "p", "l", "e", ".", "c", "o", "m">>

C14_Witness ==
    /\ Linked("email")
    /\ "emailLinkType" \in DOMAIN config.platforms.email
    /\ config.platforms.email.emailLinkType = "url"
    /\ getValidationError("email", config.platforms.email) = Undefined
    /\ LinkOf(code, config, "email") = <<"e", "x", "a", "m", "p", "l", "e", ".", "c", "o", "m">>

(***************************************************************************)
(* Properties of the sections of the bundle (checked under GenSpec)        *)
(***************************************************************************)
\* The part of a bundle between the start marker and the style tag
HtmlSection(bundle) == Slice(bundle, 2, FirstIn(bundle, 1, {"\n<style>\n"}) - 2)

\* The part of a bundle from the style tag to its end tag
CssSection(bundle) ==
    Slice(bundle, FirstIn(bundle, 1, {"\n<style>\n"}), FirstIn(bundle, 1, {"\n</style>"}))

\* The first line of the keyframe block of an animation
KeyframesOf ==
    [pulse |-> "  @keyframes scw-pulse {\n", bounce |-> "  @keyframes scw-bounce {\n",
     fade |-> "  @keyframes scw-fade {\n", shake |-> "  @keyframes scw-shake {\n"]

\* The number of keyframe blocks of animation `a` in the CSS section
KeyframeBlocks(bundle, a) == Count(CssSection(bundle), KeyframesOf[a])

\* C15: the HTML section is the same whatever buttonAnimation is; the CSS
\* section has exactly one keyframe block, that of the selected animation,
\* when buttonAnimation is not none, and no keyframe block when it is none.
C15_AnimationOnlyInCss ==
    Generated =>
        /\ \A a \in {"none", "pulse", "bounce", "fade", "shake"} :
              HtmlSection(generateWidgetCode([config EXCEPT !.buttonAnimation = a]))
                = HtmlSection(code)
        /\ \A a \in DOMAIN KeyframesOf :
              KeyframeBlocks(code, a) = IF config.buttonAnimation = a THEN 1 ELSE 0

C15_Witness ==
    /\ Generated
    /\ config.buttonAnimation = "shake"
    /\ KeyframeBlocks(code, "shake") = 1
    /\ KeyframeBlocks(code, "pulse") = 0

(***************************************************************************)
(* Properties of the configuration (checked under Spec)                    *)
(***************************************************************************)
\* The stored colour of a platform: <<"absent">> when the field is absent
StoredColor(cfg, p) ==
    IF "color" \in DOMAIN cfg.platforms[p] THEN cfg.platforms[p].color ELSE <<"absent">>

\* `next` is `prev` with the colour of p set to `value` and nothing else changed
OnlyColorSet(prev, next, p, value) ==
    next = [prev EXCEPT !.platforms[p] =
                [f \in DOMAIN prev.platforms[p] \cup {"color"} |->
                    IF f = "color" THEN value ELSE prev.platforms[p][f]]]

\* A step that changes the stored colour of a platform changes nothing else,
\* and stores a picked colour or the empty string
ColorChangesByColorEditOnly ==
    \A p \in Platform :
        StoredColor(config', p) # StoredColor(config, p) =>
            /\ config.platforms[p].enabled
            /\ OnlyColorSet(config, config', p, config'.platforms[p].color)
            /\ config'.platforms[p].color \in ColorInputs \cup {<<>>}

\* 'Reset to Default' replaces a stored colour by the empty string
ResetStoresEmpty ==
    ResetPlatformColor =>
        \E p \in Platform :
            /\ StoredColor(config, p) \notin {<<>>, <<"absent">>}
            /\ StoredColor(config', p) = <<>>

\* C16: no colour is stored at the start; a step changes the stored colour of
\* a platform only as an edit of that colour (nothing else changes, so no
\* toggle, contactId, message, link-type or icon edit changes it), the value
\* stored is the one picked or, for 'Reset to Default', the empty string, not
\* the default colour.
C16_DefaultColorNeverStored ==
    /\ \A p \in Platform : "color" \notin DOMAIN config.platforms[p]
    /\ [][ColorChangesByColorEditOnly /\ ResetStoresEmpty]_vars

C16_Witness ==
    /\ "validate" \in pending
    /\ StoredColor(config, "messenger") = <<>>
    /\ config.platforms.messenger.enabled

\* The fields of PlatformConfig
PlatformConfigFields ==
    {"enabled", "contactId", "predefinedMessage", "emailLinkType", "customIconSvg", "color"}

\* C17: in every reachable configuration, platforms has exactly the keys
\* whatsapp, messenger, telegram, phone and email, each mapped to a platform
\* configuration with a boolean enabled and a string contactId; a disabled
\* platform keeps its entry.
C17_FivePlatforms ==
    /\ DOMAIN config.platforms = {"whatsapp", "messenger", "telegram", "phone", "email"}
    /\ \A p \in DOMAIN config.platforms :
          /\ {"enabled", "contactId"} \subseteq DOMAIN config.platforms[p]
          /\ DOMAIN config.platforms[p] \subseteq PlatformConfigFields
          /\ config.platforms[p].enabled \in BOOLEAN
          /\ DOMAIN config.platforms[p].contactId = 1..Len(config.platforms[p].contactId)

C17_Witness ==
    /\ edits > 0
    /\ \A p \in Platform : ~config.platforms[p].enabled
    /\ config.platforms.whatsapp.contactId = DEFAULT_CONFIG.platforms.whatsapp.contactId

(***************************************************************************)
(* The generated behaviour script, run in a page that holds the bundle     *)
(***************************************************************************)
\* The anchors of the platform list, in document order
ItemElements == <<"item1", "item2", "item3", "item4", "item5">>

\* The DOM state the emitted markup and the wiring of the script give: the
\* class list of the container, the attributes of the toggle button and of
\* the menu, the focused element ("body": outside the widget), the keydown
\* listeners the script has on the document, whether the menu is
\* rendered (visibility), and the number of platform anchors
EmittedPage(bundle) ==
    [loaded |-> TRUE,
     open |-> ~\E i \in 1..Len(bundle) : bundle[i] = HtmlOpen[2],
     expanded |-> IF \E i \in 1..Len(bundle) : bundle[i] = HtmlFab[4] THEN "false"
                  ELSE "absent",
     hidden |-> IF \E i \in 1..Len(bundle) : bundle[i] = HtmlOpen[4] THEN "true"
                ELSE "absent",
     activeElement |-> "body",
     listeners |-> <<>>,
     visible |-> FALSE,
     items |-> Cardinality({i \in 1..Len(bundle) : bundle[i] = ItemOpen[1]})]

\* document.addEventListener('keydown', callback): a callback that is in the
\* list already is not added again
addEventListener(list, callback) ==
    IF \E i \in 1..Len(list) : list[i] = callback THEN list ELSE Append(list, callback)

\* document.removeEventListener('keydown', callback)
removeEventListener(list, callback) == SelectSeq(list, LAMBDA c : c # callback)

\* A keydown event runs handleKeyDown
Listening(w) == Len(w.listeners) > 0

\* menu.querySelectorAll('a[href], button')
focusableElements(w) == <<"close">> \o SubSeq(ItemElements, 1, w.items)

firstFocusableElement(w) == focusableElements(w)[1]

lastFocusableElement(w) == focusableElements(w)[Len(focusableElements(w))]

\* openWidget installing a new function on every call, which closeWidget
\* cannot remove (C22 depends on the same function being installed and
\* removed)
openWidget_FreshListener(w) ==
    [w EXCEPT !.open = TRUE, !.expanded = "true", !.hidden = "false",
              !.visible = TRUE,
              !.activeElement = firstFocusableElement(w),
              !.listeners = Append(w.listeners, "wrapper")]

openWidget(w) ==
    [w EXCEPT !.open = TRUE, !.expanded = "true", !.hidden = "false",
              !.visible = TRUE,
              !.activeElement = firstFocusableElement(w),
              !.listeners = addEventListener(w.listeners, "handleKeyDown")]

\* closeWidget that leaves aria-expanded as it is (C18 depends on the attribute
\* being reset)
closeWidget_KeepsExpanded(w) ==
    [w EXCEPT !.open = FALSE, !.hidden = "true", !.activeElement = "fab",
              !.listeners = removeEventListener(w.listeners, "handleKeyDown")]

\* The menu stays rendered until its visibility transition ends
closeWidget(w) ==
    [w EXCEPT !.open = FALSE, !.expanded = "false", !.hidden = "true",
              !.activeElement = "fab",
              !.listeners = removeEventListener(w.listeners, "handleKeyDown")]

\* The focusable elements of the page in tab order; "body" stands for the
\* rest of the page, before and after the widget
TabOrder(w) ==
    <<"body">> \o (IF w.visible THEN focusableElements(w) ELSE <<>>) \o <<"fab", "body">>

\* The elements sequential focus navigation can move to from the focused one
TabTargets(w, shiftKey) ==
    {TabOrder(w)[IF shiftKey THEN k - 1 ELSE k + 1] :
        k \in {j \in 1..Len(TabOrder(w)) :
                    /\ TabOrder(w)[j] = w.activeElement
                    /\ IF shiftKey THEN j > 1 ELSE j < Len(TabOrder(w))}}
    \cup (IF w.activeElement = "body" THEN {"body"} ELSE {})

\* handleKeyDown without the branch for Shift (C23 depends on the wrap at
\* both ends)
TrapTarget_ForwardOnly(w, shiftKey) ==
    IF ~shiftKey /\ w.activeElement = lastFocusableElement(w)
    THEN firstFocusableElement(w)
    ELSE "default"

\* handleKeyDown for the Tab key: the element it focuses, or "default" when
\* it leaves the key to the browser
TrapTarget(w, shiftKey) ==
    IF shiftKey
    THEN IF w.activeElement = firstFocusableElement(w) THEN lastFocusableElement(w)
         ELSE "default"
    ELSE IF w.activeElement = lastFocusableElement(w) THEN firstFocusableElement(w)
         ELSE "default"

PageUnchanged ==
    UNCHANGED <<config, errors, code, pending, edits, mounted, vIn, vOut, copyState>>

\* fab.addEventListener('click', ...)
ClickFab ==
    /\ widget.loaded
    /\ widget' = IF widget.open THEN closeWidget(widget) ELSE openWidget(widget)
    /\ PageUnchanged

\* closeButton.addEventListener('click', closeWidget): the listener runs
\* whatever the state of the widget is
ClickClose ==
    /\ widget.loaded
    /\ widget' = closeWidget(widget)
    /\ PageUnchanged

\* The Escape key: handleKeyDown runs while it is a listener
PressEscape ==
    /\ widget.loaded
    /\ widget' = IF Listening(widget) THEN closeWidget(widget) ELSE widget
    /\ PageUnchanged

\* The Tab key, with or without Shift: handleKeyDown while it is a listener,
\* and the browser's focus navigation unless the handler prevented it
KeyTab(shiftKey) ==
    IF Listening(widget) /\ TrapTarget(widget, shiftKey) # "default"
    THEN widget' = [widget EXCEPT !.activeElement = TrapTarget(widget, shiftKey)]
    ELSE \E target \in TabTargets(widget, shiftKey) :
            widget' = [widget EXCEPT !.activeElement = target]

PressTab ==
    /\ widget.loaded
    /\ \E shiftKey \in BOOLEAN : KeyTab(shiftKey)
    /\ PageUnchanged

\* A click on a platform anchor or on the rest of the page moves the focus
ClickElsewhere ==
    /\ widget.loaded
    /\ \E target \in {"body"} \cup (IF widget.visible
                                     THEN {ItemElements[k] : k \in 1..widget.items}
                                     ELSE {}) :
          widget' = [widget EXCEPT !.activeElement = target]
    /\ PageUnchanged

\* The visibility transition of a closed menu ends: the menu is no longer
\* rendered, and an element in it loses the focus
TransitionEnd ==
    /\ widget.loaded
    /\ ~widget.open
    /\ widget.visible
    /\ widget' = [widget EXCEPT !.visible = FALSE,
                                !.activeElement =
                                    IF widget.activeElement \in {"fab", "body"}
                                    THEN widget.activeElement ELSE "body"]
    /\ PageUnchanged

\* The page holds the bundle generated for a configuration; the script has
\* run its DOMContentLoaded handler
PageInit ==
    /\ config \in {WithEnabled(enabled) : enabled \in SUBSET Platform}
    /\ errors = <<>>
    /\ code = generateWidgetCode(config)
    /\ pending = {}
    /\ edits = 0
    /\ mounted = TRUE
    /\ vIn = NoCall
    /\ vOut = Pending
    /\ widget = EmittedPage(code)
    /\ copyState = NoCopy

PageNext ==
    \/ ClickFab
    \/ ClickClose
    \/ PressEscape
    \/ PressTab
    \/ ClickElsewhere
    \/ TransitionEnd

PageSpec == PageInit /\ [][PageNext]_vars

\* C18: from the emitted markup on and after any toggle-button clicks,
\* close-button clicks and Escape key presses, the container has the class
\* open exactly when the toggle button's aria-expanded is "true", exactly
\* when the menu's aria-hidden is "false"; a toggle-button click flips the
\* open state.
C18_OpenStateInSync ==
    /\ ~widget.open /\ widget.expanded = "false" /\ widget.hidden = "true"
    /\ [](/\ widget.open <=> widget.expanded = "true"
          /\ widget.open <=> widget.hidden = "false"
          /\ widget.expanded \in {"true", "false"}
          /\ widget.hidden \in {"true", "false"})
    /\ [][ClickFab => widget'.open = ~widget.open]_vars

C18_Witness ==
    /\ widget.open
    /\ widget.expanded = "true"
    /\ widget.hidden = "false"
    /\ widget.activeElement = "item2"

\* The positions of a piece in a bundle
PositionsOf(bundle, piece) == {i \in 1..Len(bundle) : bundle[i] = piece}

\* The bundle is the start comment, one HTML fragment (from the container
\* comment to the closing div of the container), one style element, one
\* script element and the end comment, in this order and with nothing but a
\* line break between two of them
ThreeSections(bundle, styleOpen, styleClose, scriptOpen, scriptClose) ==
    /\ Len(bundle) > 0
    /\ bundle[1] = "<!-- Start Social Contact Widget -->\n"
    /\ bundle[Len(bundle)] = "\n<!-- End Social Contact Widget -->"
    /\ Cardinality(styleOpen) = 1 /\ Cardinality(styleClose) = 1
    /\ Cardinality(scriptOpen) = 1 /\ Cardinality(scriptClose) = 1
    /\ \A s1 \in styleOpen, s2 \in styleClose, j1 \in scriptOpen, j2 \in scriptClose :
          /\ bundle[2] = "\n<!-- Social Contact Widget Container -->\n"
          /\ s1 > 4
          /\ bundle[s1 - 2] = "</div>"
          /\ bundle[s1 - 1] = "\n"
          /\ s1 < s2
          /\ bundle[s2 + 1] = "\n"
          /\ j1 = s2 + 2
          /\ j1 < j2
          /\ j2 = Len(bundle) - 1
          /\ \A i \in (2..(s1 - 2)) \cup ((s1 + 1)..(s2 - 1)) \cup ((j1 + 1)..(j2 - 1)) :
                bundle[i] \notin {"<!-- Start Social Contact Widget -->\n",
                                  "\n<!-- End Social Contact Widget -->"}

\* C19: the generated bundle starts with the comment
\* <!-- Start Social Contact Widget -->, ends with the comment
\* <!-- End Social Contact Widget -->, and holds between them exactly three
\* sections in this order: the HTML fragment, the CSS in a style tag, the
\* JavaScript in a script tag, for every configuration that was generated.
C19_MarkersAndThreeSections ==
    Generated =>
        ThreeSections(code, PositionsOf(code, "\n<style>\n"),
                      PositionsOf(code, "\n</style>"),
                      PositionsOf(code, "\n<script>\n"),
                      PositionsOf(code, "</script>"))

C19_Witness ==
    /\ Generated
    /\ Len(EnabledNames(config)) = 2
    /\ config.buttonAnimation = "none"
    /\ PositionsOf(code, "\n<script>\n") # {}
    /\ code[Len(code)] = "\n<!-- End Social Contact Widget -->"

\* The error map the validators give for a configuration: the messages of
\* the enabled platforms whose contactId is rejected
ValidatorResult(cfg) ==
    [p \in {q \in Platform : /\ cfg.platforms[q].enabled
                              /\ getValidationError(q, cfg.platforms[q]) # Undefined}
        |-> getValidationError(p, cfg.platforms[p])]

\* C20: after any sequence of edits, once the validation effect of the latest
\* edit has run the error map is the validators' result on the latest
\* configuration, and once the generation effect of the latest edit has run
\* the code is the generator's output on the latest configuration, whatever
\* the earlier edits and results were and whichever effect ran first.
C20_EffectsFollowLatestConfig ==
    /\ (mounted /\ "validate" \notin pending) => errors = ValidatorResult(config)
    /\ (mounted /\ "generate" \notin pending) => code = generateWidgetCode(config)

C20_Witness ==
    /\ mounted
    /\ pending = {}
    /\ edits = MaxEdits
    /\ ~config.platforms.messenger.enabled
    /\ config.platforms.whatsapp.enabled
    /\ config.platforms.whatsapp.contactId = <<>>
    /\ DOMAIN errors = {"whatsapp"}
    /\ Len(code) > 0

\* The top-level fields of a configuration other than platforms
TopLevelFields ==
    {"headerText", "headerBgColor", "headerTextColor", "mainButtonColor",
     "mainIconColor", "position",
     "buttonAnimation", "widgetShape", "menuSpacing"}

\* next is prev with at most the top-level field `name` changed
OnlyTopLevelChanged(prev, next, name) ==
    /\ DOMAIN next = DOMAIN prev
    /\ \A f \in DOMAIN prev \ {name} : next[f] = prev[f]

\* next is prev with the enabled flag of platform p flipped and nothing else
\* changed
OnlyEnabledFlipped(prev, next, p) ==
    /\ DOMAIN next = DOMAIN prev
    /\ \A f \in DOMAIN prev \ {"platforms"} : next[f] = prev[f]
    /\ DOMAIN next.platforms = DOMAIN prev.platforms
    /\ \A q \in DOMAIN prev.platforms \ {p} : next.platforms[q] = prev.platforms[q]
    /\ DOMAIN next.platforms[p] = DOMAIN prev.platforms[p]
    /\ next.platforms[p].enabled = ~prev.platforms[p].enabled
    /\ \A f \in DOMAIN prev.platforms[p] \ {"enabled"} :
          next.platforms[p][f] = prev.platforms[p][f]

\* next is prev with at most the fields `changed` of platform p changed
OnlyPlatformFieldsChanged(prev, next, p, changed) ==
    /\ DOMAIN next = DOMAIN prev
    /\ \A f \in DOMAIN prev \ {"platforms"} : next[f] = prev[f]
    /\ DOMAIN next.platforms = DOMAIN prev.platforms
    /\ \A q \in DOMAIN prev.platforms \ {p} : next.platforms[q] = prev.platforms[q]
    /\ DOMAIN prev.platforms[p] \subseteq DOMAIN next.platforms[p]
    /\ DOMAIN next.platforms[p] \subseteq DOMAIN prev.platforms[p] \cup changed
    /\ \A f \in DOMAIN prev.platforms[p] \ changed :
          next.platforms[p][f] = prev.platforms[p][f]

\* The field of the configuration each kind of edit may change
TopLevelEditFrame ==
    /\ EditHeaderText => OnlyTopLevelChanged(config, config', "headerText")
    /\ EditColor =>
          \E name \in {"headerBgColor", "headerTextColor", "mainButtonColor",
                       "mainIconColor"} :
              OnlyTopLevelChanged(config, config', name)
    /\ SelectRadio =>
          \E name \in {"position", "buttonAnimation", "widgetShape", "menuSpacing"} :
              OnlyTopLevelChanged(config, config', name)

ToggleFrame ==
    TogglePlatform =>
        /\ \E p \in Platform : OnlyEnabledFlipped(config, config', p)
        /\ \A p \in Platform :
              PlatformToggleUpdate(PlatformToggleUpdate(config, p), p) = config

PlatformFieldEditFrame ==
    /\ EditContactId =>
          \E p \in Platform : OnlyPlatformFieldsChanged(config, config', p, {"contactId"})
    /\ (EditPlatformColor \/ ResetPlatformColor) =>
          \E p \in Platform : OnlyPlatformFieldsChanged(config, config', p, {"color"})
    /\ EditPredefinedMessage =>
          \E p \in Platform :
              OnlyPlatformFieldsChanged(config, config', p, {"predefinedMessage"})
    /\ (EditCustomIcon \/ ResetCustomIcon) =>
          \E p \in Platform :
              OnlyPlatformFieldsChanged(config, config', p, {"customIconSvg"})
    /\ SelectEmailLinkType =>
          /\ OnlyPlatformFieldsChanged(config, config', "email",
                                       {"emailLinkType", "contactId"})
          /\ config'.platforms.email.contactId = <<>>

\* Every step that changes the configuration is one of the edits
EveryChangeIsAnEdit ==
    config' # config =>
        \/ \E name \in TopLevelFields : OnlyTopLevelChanged(config, config', name)
        \/ \E p \in Platform : OnlyEnabledFlipped(config, config', p)
        \/ \E p \in Platform : \E f \in PlatformConfigFields \ {"enabled", "emailLinkType"} :
              OnlyPlatformFieldsChanged(config, config', p, {f})
        \/ /\ OnlyPlatformFieldsChanged(config, config', "email",
                                         {"emailLinkType", "contactId"})
           /\ config'.platforms.email.contactId = <<>>

\* C21: every edit changes one field and leaves the rest of the
\* configuration as it was: a top-level edit changes the named field and not
\* platforms; a toggle of p changes platforms[p].enabled only, so two toggles
\* restore the configuration; a field edit on p changes that field of p only,
\* except that an emailLinkType edit also empties email.contactId.
C21_EditsChangeOneField ==
    [][TopLevelEditFrame /\ ToggleFrame /\ PlatformFieldEditFrame
       /\ EveryChangeIsAnEdit]_vars

C21_Witness ==
    /\ edits = MaxEdits
    /\ config.headerText = <<"H", "i">>
    /\ config.platforms.messenger.enabled
    /\ config.platforms.messenger.contactId = DEFAULT_CONFIG.platforms.messenger.contactId
    /\ config.platforms.whatsapp = DEFAULT_CONFIG.platforms.whatsapp
    /\ config.mainIconColor = DEFAULT_CONFIG.mainIconColor

\* A step that opens the widget, and the three routes that close it
OpeningStep == ClickFab /\ ~widget.open

ClosingStep ==
    \/ ClickClose
    \/ ClickFab /\ widget.open
    \/ PressEscape /\ widget.open

ListenerSteps ==
    /\ OpeningStep =>
          /\ widget'.open
          /\ widget'.activeElement = "close"
          /\ widget'.listeners = <<"handleKeyDown">>
    /\ ClosingStep =>
          /\ ~widget'.open
          /\ widget'.activeElement = "fab"
          /\ widget'.listeners = <<>>
    /\ (PressEscape /\ ~widget.open) => widget' = widget

\* C22: the key-handling listener is installed exactly while the widget is
\* open, and at most once; opening moves the focus to the first interactive
\* element of the menu and installs the listener; closing by the close
\* button, by a toggle click while open or by Escape removes the open class,
\* returns the focus to the toggle button and removes the listener; an Escape
\* press while the widget is closed changes nothing.
C22_ListenerWhileOpen ==
    /\ [](/\ Len(widget.listeners) <= 1
          /\ widget.open <=> widget.listeners = <<"handleKeyDown">>)
    /\ [][ListenerSteps]_vars

C22_Witness ==
    /\ ~widget.open
    /\ widget.visible
    /\ widget.listeners = <<>>
    /\ widget.activeElement = "fab"
    /\ widget.items = 0

\* The focus is on an interactive element of the menu
FocusInMenu(w) ==
    \E i \in 1..Len(focusableElements(w)) : focusableElements(w)[i] = w.activeElement

TabWraps ==
    /\ (PressTab /\ KeyTab(FALSE) /\ widget.open
            /\ widget.activeElement = lastFocusableElement(widget))
          => widget'.activeElement = firstFocusableElement(widget)
    /\ (PressTab /\ KeyTab(TRUE) /\ widget.open
            /\ widget.activeElement = firstFocusableElement(widget))
          => widget'.activeElement = lastFocusableElement(widget)

TabStaysInMenu ==
    (PressTab /\ widget.open /\ FocusInMenu(widget))
        => (widget'.open /\ FocusInMenu(widget'))

\* C23: while the widget is open, Tab on the last interactive element of the
\* menu moves the focus to the first and Shift+Tab on the first moves it to
\* the last; so, from a focus inside the menu, no Tab or Shift+Tab press
\* moves the focus out of the menu while it is open, also when the close
\* button is the only interactive element.
C23_FocusTrap == [][TabWraps /\ TabStaysInMenu]_vars

C23_Witness ==
    /\ widget.open
    /\ widget.items = 1
    /\ widget.activeElement = "item1"
    /\ Listening(widget)

\* The swatch colour of the list entry that starts at position `start`: the
\* value of background-color of its icon box
SwatchFrom(bundle, start) ==
    Slice(bundle,
          FirstIn(bundle, start,
                  {"        <div class=\"scw-platform-icon\" style=\"background-color: "}) + 1,
          FirstIn(bundle, start, {";\">\n"}) - 1)

\* The icon markup of the list entry that starts at position `start`: the
\* content of its icon box
IconFrom(bundle, start) ==
    Slice(bundle, FirstIn(bundle, start, {";\">\n"}) + 2,
          FirstIn(bundle, start, {"\n        </div>\n"}) - 1)

\* The position in the bundle of the list entry of an enabled platform
EntryStart(bundle, cfg, p) == EntryStarts(bundle)[EntryIndex(cfg, p)]

\* An override of a platform is present and non-empty
HasOverride(pc, field) == field \in DOMAIN pc /\ pc[field] # <<>>

\* The configuration without the overrides that are the empty string
WithoutEmptyOverrides(cfg) ==
    [cfg EXCEPT !.platforms =
        [p \in DOMAIN cfg.platforms |->
            [f \in {g \in DOMAIN cfg.platforms[p] :
                        g \in {"color", "customIconSvg"} => cfg.platforms[p][g] # <<>>}
                |-> cfg.platforms[p][f]]]]

\* C24: in the entry of every enabled platform the icon markup is
\* customIconSvg when it is present and non-empty and otherwise the built-in
\* icon of the platform id in white, and the swatch colour is color when it
\* is present and non-empty and otherwise the default colour of the platform;
\* an empty override gives the bundle an absent one gives.
C24_OverridesOrDefaults ==
    Generated =>
        /\ \A p \in Platform :
              config.platforms[p].enabled =>
                  /\ IconFrom(code, EntryStart(code, config, p))
                        = IF HasOverride(config.platforms[p], "customIconSvg")
                          THEN config.platforms[p].customIconSvg
                          ELSE <<"<svg built-in icon: ", p, " fill=", "#FFFFFF", ">">>
                  /\ SwatchFrom(code, EntryStart(code, config, p))
                        = IF HasOverride(config.platforms[p], "color")
                          THEN config.platforms[p].color
                          ELSE PLATFORM_DETAILS[p].defaultColor
        /\ code = generateWidgetCode(WithoutEmptyOverrides(config))

C24_Witness ==
    /\ Generated
    /\ config.platforms.telegram.enabled
    /\ "color" \in DOMAIN config.platforms.telegram
    /\ config.platforms.telegram.color = <<>>
    /\ SwatchFrom(code, EntryStart(code, config, "telegram"))
          = PLATFORM_DETAILS.telegram.defaultColor

\* What the link of a platform starts with when it is built from `value`
LinkBuiltFrom(p, pc, value) ==
    CASE p = "whatsapp" -> <<"https://wa.me/">> \o value
      [] p = "messenger" -> <<"https://m.me/">> \o value
      [] p = "telegram" -> <<"https://t.me/">> \o value
      [] p = "phone" -> <<"tel:">> \o SelectSeq(value, LAMBDA c : c \notin WhiteSpace)
      [] p = "email" -> IF "emailLinkType" \in DOMAIN pc /\ pc.emailLinkType = "mailto"
                        THEN <<"mailto:">> \o value
                        ELSE value

\* C25: when the validation effect reports no error for an enabled platform,
\* the link of its entry is built from the trimmed contactId, the value the
\* validator tested, so it has no leading or trailing white space of
\* contactId.
C25_LinkFromTrimmedValue ==
    (Generated /\ "validate" \notin pending) =>
        \A p \in Platform :
            (config.platforms[p].enabled /\ p \notin DOMAIN errors) =>
                StartsWith(LinkOf(code, config, p),
                           LinkBuiltFrom(p, config.platforms[p],
                                         trim(config.platforms[p].contactId)))

\* C26: in every configuration reached from the default one by edits,
\* email.emailLinkType is present and is mailto or url; so the URL rule of the
\* validator and the verbatim link of the generator, the branches taken when
\* the link type is not mailto, are taken only when it is url.
C26_LinkTypeAlwaysSet ==
    /\ "emailLinkType" \in DOMAIN config.platforms.email
    /\ config.platforms.email.emailLinkType \in {"mailto", "url"}
    /\ (mounted /\ "validate" \notin pending /\ config.platforms.email.enabled
           /\ "email" \in DOMAIN errors /\ errors.email \in UrlMessages)
          => config.platforms.email.emailLinkType = "url"
    /\ (Linked("email")
           /\ ~StartsWith(LinkOf(code, config, "email"), <<"mailto:">>))
          => config.platforms.email.emailLinkType = "url"

C26_Witness ==
    /\ mounted
    /\ pending = {}
    /\ config.platforms.email.enabled
    /\ config.platforms.email.emailLinkType = "url"
    /\ config.platforms.email.contactId = <<"/", "c">>
    /\ "email" \notin DOMAIN errors
    /\ LinkOf(code, config, "email") = <<"/", "c">>

\* A click on the link type button that is selected already
SameLinkTypeSelected ==
    /\ SelectEmailLinkType
    /\ config'.platforms.email.emailLinkType = config.platforms.email.emailLinkType

\* C27: an emailLinkType edit empties email.contactId whatever the link type
\* was: a click on the button of the link type that is active already leaves
\* the link type as it is and sets contactId to the empty string.
C27_SameLinkTypeAlsoResets ==
    [][/\ SelectEmailLinkType => config'.platforms.email.contactId = <<>>
       /\ SameLinkTypeSelected =>
             config' = [config EXCEPT !.platforms.email.contactId = <<>>]]_vars

C27_Witness ==
    /\ edits = 2
    /\ pending = {"validate", "generate"}
    /\ config.platforms.email.enabled
    /\ config.platforms.email.emailLinkType = "mailto"
    /\ config.platforms.email.contactId = <<>>

(***************************************************************************)
(* CodeOutput's Copy Code button                                           *)
(***************************************************************************)
MaxCopies == 4

CopyUnchanged ==
    UNCHANGED <<config, errors, code, pending, edits, mounted, vIn, vOut, widget>>

\* handleCopy: navigator.clipboard.writeText(code) starts a write; the
\* writes are numbered in the order of the clicks
handleCopy ==
    /\ mounted
    /\ copyState.clicks < MaxCopies
    /\ copyState' = [copyState EXCEPT !.clicks = @ + 1, !.writes = @ \cup {copyState.clicks + 1}]
    /\ CopyUnchanged

\* .then(() => { setCopied(true); setTimeout(() => setCopied(false), 2000) }):
\* the timers have the same delay, so they expire in the order they were set
WriteResolved ==
    /\ mounted
    /\ \E write \in copyState.writes :
          copyState' = [copyState EXCEPT !.copied = TRUE,
                                         !.writes = @ \ {write},
                                         !.timers = Append(@, write)]
    /\ CopyUnchanged

\* .catch(err => console.error(...))
WriteRejected ==
    /\ mounted
    /\ \E write \in copyState.writes :
          copyState' = [copyState EXCEPT !.writes = @ \ {write}]
    /\ CopyUnchanged

\* The oldest reset timer expires: setCopied(false)
TimerExpires ==
    /\ mounted
    /\ copyState.timers # <<>>
    /\ copyState' = [copyState EXCEPT !.copied = FALSE, !.timers = Tail(@)]
    /\ CopyUnchanged

\* CodeOutput is mounted with the bundle of a configuration
CopyInit ==
    /\ config \in {WithEnabled(enabled) : enabled \in {Platform, {}}}
    /\ errors = <<>>
    /\ code = generateWidgetCode(config)
    /\ pending = {}
    /\ edits = 0
    /\ mounted = TRUE
    /\ vIn = NoCall
    /\ vOut = Pending
    /\ widget = NoPage
    /\ copyState = NoCopy

CopyNext ==
    \/ handleCopy
    \/ WriteResolved
    \/ WriteRejected
    \/ TimerExpires

CopySpec == CopyInit /\ [][CopyNext]_vars

\* The steps of the indicator: a successful write sets it, a failed write
\* leaves it as it is
CopiedSteps ==
    /\ WriteResolved => copyState'.copied
    /\ WriteRejected => copyState'.copied = copyState.copied

\* C28: the copied indicator becomes true when a clipboard write succeeds,
\* is left as it is when a write fails, and is not cleared by the reset timer
\* of an earlier copy while the reset timer of a later successful copy is
\* pending: it is true as long as a reset timer is pending.
C28_CopiedFollowsLatestCopy ==
    /\ [](copyState.timers # <<>> => copyState.copied)
    /\ [][CopiedSteps]_vars

====
